---- MODULE Spec2Model ----
(***************************************************************************)
(* A model of the koto runtime's `iterator` core library module           *)
(* (src/src/runtime/src/core/iterator.rs).                                 *)
(*                                                                         *)
(* One call of an eager iterator function is one run of the machine: Call  *)
(* validates the arguments and makes the iterator, every further action is *)
(* one pass through the function's `for output in iterator` loop (one      *)
(* `next()` on the source, then the match arms of the loop body, with the  *)
(* calls into user code and into the VM's binary operators they make).     *)
(* Every call out of the library is appended to `calls`, stamped with the  *)
(* number of the step that made it.                                        *)
(***************************************************************************)
EXTENDS Integers, Sequences, FiniteSets, TLC

\* The longest source a call is given.
MaxLen == 3

VARIABLES
    pc,        \* "idle": no call yet; "loop": inside the function; "done": returned
    op,        \* the iterator function that was called
    initial_value, \* the initial value the call was given (fold, sum, product)
    src,       \* what the source's next() yields, in order
    pos,       \* how many times next() has yielded an output (Some(_))
    acc,       \* the function's local accumulator (`result`, `fold_result`, ...)
    calls,     \* the calls made into user functions and binary operators
    result,    \* the RuntimeResult returned
    borrowed,  \* the iterator's internals are borrowed (borrow_internals)
    call_args, \* the arguments of the last call of a lazy or a pure function
    iterators, \* the ValueIterators that exist, by handle
    copies,    \* the pairs <<it, c>> of handles such that c = copy(it)
    input_history,    \* Repl::input_history
    history_position, \* Repl::history_position
    input,     \* Repl::input
    cursor,    \* Repl::cursor
    process,   \* the REPL's process: "running", "exited" or "panicked"
    last_key,  \* the key that was read last
    enters,    \* how many times Enter has been pressed
    printed,   \* what the last key made the REPL print: "result", "error", "none"
    strings,   \* the ValueStrings that have been made
    capture,   \* OutputCapture::output, which stdout and stderr share
    writes     \* what the program has written so far, write by write

vars ==
    <<pc, op, initial_value, src, pos, acc, calls, result, borrowed,
      call_args, iterators, copies, input_history, history_position, input,
      cursor, process, last_key, enters, printed, strings, capture, writes>>

\* What the functions that return at once leave alone, and what the eager
\* loops leave alone.
loop_vars == <<pc, initial_value, pos, acc, calls, borrowed>>
handle_vars == <<call_args, iterators, copies>>

\* The states of the REPL, of the strings and of the browser's entry point,
\* which the iterator and num4 functions have no part in.
repl_vars ==
    <<input_history, history_position, input, cursor, process, last_key,
      enters, printed>>
string_vars == <<strings>>
wasm_vars == <<capture, writes>>
side_vars == <<repl_vars, string_vars, wasm_vars>>

----------------------------------------------------------------------------
(* Values (value.rs, enum Value), iterator outputs and results.            *)

Null == [t |-> "Null"]
Bool(b) == [t |-> "Bool", b |-> b]
Number(n, f) == [t |-> "Number", n |-> n, float |-> f]
Tuple(s) == [t |-> "Tuple", data |-> s]
List(s) == [t |-> "List", data |-> s]

\* ValueIteratorOutput
OValue(v) == [o |-> "Value", v |-> v]
OValuePair(a, b) == [o |-> "ValuePair", a |-> a, b |-> b]
OError(e) == [o |-> "Error", e |-> e]

\* RuntimeResult; NoResult while the function has not returned
Ok(v) == [r |-> "Ok", v |-> v]
Err(e) == [r |-> "Err", e |-> e]
NoResult == [r |-> "None"]
IsOk(x) == x.r = "Ok"
IsErr(x) == x.r = "Err"

\* Option<T>
None == <<>>
Some(x) == <<x>>

\* The numbers of the model: 1, 1.0 and 2 (1 and 1.0 are different values,
\* neither of which is `<` the other).
Int1 == Number(1, FALSE)
Float1 == Number(1, TRUE)
Int2 == Number(2, FALSE)

\* Errors (RuntimeError): where the error was raised and its message.
Error(kind, msg) == [kind |-> kind, msg |-> msg]

\* The errors a source can yield (e.g. an `each` adaptor whose function fails).
SourceErrors == {Error("source", "E1"), Error("source", "E2")}

\* The error a user function fails with.
FnError == Error("function", "F1")

\* The outputs a source can yield.
Outputs ==
    {OValue(Int1), OValue(Float1), OValue(Int2), OValuePair(Int1, Int2)}
        \cup {OError(e) : e \in SourceErrors}

Sources == UNION {[1..n -> Outputs] : n \in 0..MaxLen}

----------------------------------------------------------------------------
(* The VM facade the library calls into.                                   *)

\* What a predicate can do when called: return a Bool, return something that
\* is no Bool, or fail.
PredicateResults == {Ok(Bool(TRUE)), Ok(Bool(FALSE)), Ok(Int1), Err(FnError)}

\* What consume's function can do: return (its value is dropped) or fail.
ConsumeResults == {Ok(Null), Err(FnError)}

\* What a folding function can do: return the next accumulator, fail, or
\* call iterator.next on the iterator that is being folded.
Reenter == [r |-> "Reenter"]
FoldResults == {Ok(Int1), Ok(Int2), Err(FnError), Reenter}

\* What a key function can do: return a key or fail.
KeyResults == {Ok(Int1), Ok(Int2), Ok(Null), Err(FnError)}

\* The functions without a user function make no call.
NoCall == {NoResult}

\* A call out of the library: vm.run_function(f, args) or
\* vm.run_binary_op(op, a, b), with what it returned.
CallRecord(fn, mode, args, ret) ==
    [fn |-> fn, mode |-> mode, args |-> args, ret |-> ret]

\* vm.run_binary_op: `<`, `+` and `*` are defined between two Numbers; the
\* result of `+` and `*` is a float as soon as one operand is.
run_binary_op(operator, a, b) ==
    IF a.t = "Number" /\ b.t = "Number"
    THEN CASE operator = "Less" -> Ok(Bool(a.n < b.n))
           [] operator = "Add" -> Ok(Number(a.n + b.n, a.float \/ b.float))
           [] operator = "Multiply" -> Ok(Number(a.n * b.n, a.float \/ b.float))
    ELSE Err(Error("binary_op", "unsupported operands"))

BinaryOpCall(operator, a, b) ==
    CallRecord(operator, "BinaryOp", <<a, b>>, run_binary_op(operator, a, b))

\* type_error("a Bool to be returned from the predicate", &unexpected)
type_error(expected, unexpected) ==
    Err([kind |-> "type_error", msg |-> expected, found |-> unexpected.t])

\* type_error_with_slice(expected, &[unexpected, ..])
type_error_with_slice(expected, unexpected) ==
    Err([kind |-> "type_error", msg |-> expected,
         found |-> [i \in 1..Len(unexpected) |-> unexpected[i].t]])

ExpectedBool == "a Bool to be returned from the predicate"

----------------------------------------------------------------------------
(* Helpers of iterator.rs.                                                 *)

collect_pair(iterator_output) ==
    IF iterator_output.o = "ValuePair"
    THEN OValue(Tuple(<<iterator_output.a, iterator_output.b>>))
    ELSE iterator_output

\* What one pass through a loop body comes to: the function returns `v`, or
\* the loop goes on with the accumulator `v`; `log` are the calls it made.
Ret(v, log) == [k |-> "ret", v |-> v, log |-> log]
Cont(v, log) == [k |-> "cont", v |-> v, log |-> log]

\* The call of a one-argument user function on an output that is no error:
\* CallArgs::Single(value) for a value, CallArgs::AsTuple(&[a, b]) for a pair.
SingleOrAsTuple(fn, output, ret) ==
    IF output.o = "ValuePair"
    THEN CallRecord(fn, "AsTuple", <<output.a, output.b>>, ret)
    ELSE CallRecord(fn, "Single", <<output.v>>, ret)

\* Compares two values using BinaryOp::Less: the lesser of the two, unless
\* invert_result is "Yes".
compare_values(a, b, invert_result) ==
    LET comparison_result == run_binary_op("Less", a, b) IN
    IF IsErr(comparison_result) THEN comparison_result
    ELSE IF comparison_result.v.t # "Bool"
    THEN Err(Error("runtime", "Expected Bool from '<' comparison"))
    ELSE CASE comparison_result.v.b /\ invert_result = "No" -> Ok(a)
           [] ~comparison_result.v.b /\ invert_result = "No" -> Ok(b)
           [] comparison_result.v.b /\ invert_result = "Yes" -> Ok(b)
           [] ~comparison_result.v.b /\ invert_result = "Yes" -> Ok(a)

\* The same on (value, key) pairs, comparing the keys.
compare_values_with_key(a_and_key, b_and_key, invert_result) ==
    LET comparison_result == run_binary_op("Less", a_and_key[2], b_and_key[2]) IN
    IF IsErr(comparison_result) THEN comparison_result
    ELSE IF comparison_result.v.t # "Bool"
    THEN Err(Error("runtime", "Expected Bool from '<' comparison"))
    ELSE CASE comparison_result.v.b /\ invert_result = "No" -> Ok(a_and_key)
           [] ~comparison_result.v.b /\ invert_result = "No" -> Ok(b_and_key)
           [] comparison_result.v.b /\ invert_result = "Yes" -> Ok(b_and_key)
           [] ~comparison_result.v.b /\ invert_result = "Yes" -> Ok(a_and_key)

----------------------------------------------------------------------------
(* The loop bodies: body(acc, output, ret) is one pass with the local      *)
(* state acc on the source's output, `ret` being what the user function    *)
(* returns if the pass calls it; end(acc) is the value returned when the   *)
(* source is exhausted.                                                    *)

\* The match on the predicate's result that all, any, find and position share
\* but for the Bool arm.
PredicateOutcome(ret, call, on_true, on_false) ==
    IF IsOk(ret) /\ ret.v.t = "Bool"
    THEN IF ret.v.b THEN on_true ELSE on_false
    ELSE IF IsOk(ret) THEN Ret(type_error(ExpectedBool, ret.v), <<call>>)
    ELSE Ret(ret, <<call>>)

\* all as it would be without the `if !result { return }`.
all_body_no_short_circuit(a, output, ret) ==
    IF output.o = "Error" THEN Ret(Err(output.e), <<>>)
    ELSE LET call == SingleOrAsTuple("predicate", output, ret) IN
         PredicateOutcome(ret, call, Cont(a, <<call>>), Cont(a, <<call>>))

all_body(a, output, ret) ==
    IF output.o = "Error" THEN Ret(Err(output.e), <<>>)
    ELSE LET call == SingleOrAsTuple("predicate", output, ret) IN
         PredicateOutcome(ret, call, Cont(a, <<call>>), Ret(Ok(Bool(FALSE)), <<call>>))

all_end(a) == Ok(Bool(TRUE))

any_body(a, output, ret) ==
    IF output.o = "Error" THEN Ret(Err(output.e), <<>>)
    ELSE LET call == SingleOrAsTuple("predicate", output, ret) IN
         PredicateOutcome(ret, call, Ret(Ok(Bool(TRUE)), <<call>>), Cont(a, <<call>>))

any_end(a) == Ok(Bool(FALSE))

consume_body(a, output, ret) ==
    IF output.o = "Error" THEN Ret(Err(output.e), <<>>) ELSE Cont(a, <<>>)

consume_fn_body(a, output, ret) ==
    IF output.o = "Error" THEN Ret(Err(output.e), <<>>)
    ELSE LET call == SingleOrAsTuple("f", output, ret) IN
         IF IsErr(ret) THEN Ret(ret, <<call>>) ELSE Cont(a, <<call>>)

consume_end(a) == Ok(Null)

\* count as it would be if an error were counted like a value.
count_body_counting_errors(count_result, output, ret) ==
    Cont(count_result + 1, <<>>)

count_body(count_result, output, ret) ==
    IF output.o = "Error" THEN Ret(Err(output.e), <<>>)
    ELSE Cont(count_result + 1, <<>>)

count_end(count_result) == Ok(Number(count_result, FALSE))

\* find as it would be if it handed a pair on as all and any do, split.
find_body_without_collect_pair(a, output, ret) ==
    IF output.o = "Error" THEN Ret(Err(output.e), <<>>)
    ELSE LET call == SingleOrAsTuple("predicate", output, ret) IN
         PredicateOutcome(ret, call, Ret(Ok(collect_pair(output).v), <<call>>),
                          Cont(a, <<call>>))

find_body(a, raw, ret) ==
    LET output == collect_pair(raw) IN
    IF output.o = "Error" THEN Ret(Err(output.e), <<>>)
    ELSE LET call == CallRecord("predicate", "Single", <<output.v>>, ret) IN
         PredicateOutcome(ret, call, Ret(Ok(output.v), <<call>>), Cont(a, <<call>>))

find_end(a) == Ok(Null)

\* position as it would be if a result that is no Bool counted as false.
position_body_truthy(i, output, ret) ==
    IF output.o = "Error" THEN Ret(Err(output.e), <<>>)
    ELSE LET call == SingleOrAsTuple("predicate", output, ret) IN
         IF IsOk(ret) /\ ret.v.t = "Bool"
         THEN IF ret.v.b THEN Ret(Ok(Number(i, FALSE)), <<call>>)
              ELSE Cont(i + 1, <<call>>)
         ELSE IF IsOk(ret) THEN Cont(i + 1, <<call>>)
         ELSE Ret(ret, <<call>>)

\* position as it would be if it counted from one.
position_body_one_based(i, output, ret) ==
    IF output.o = "Error" THEN Ret(Err(output.e), <<>>)
    ELSE LET call == SingleOrAsTuple("predicate", output, ret) IN
         IF IsOk(ret) /\ ret.v.t = "Bool"
         THEN IF ret.v.b THEN Ret(Ok(Number(i + 1, FALSE)), <<call>>)
              ELSE Cont(i + 1, <<call>>)
         ELSE IF IsOk(ret)
         THEN Ret(type_error_with_slice(ExpectedBool, <<ret.v>>), <<call>>)
         ELSE Ret(ret, <<call>>)

\* position's accumulator is the index that enumerate() hands out.
position_body(i, output, ret) ==
    IF output.o = "Error" THEN Ret(Err(output.e), <<>>)
    ELSE LET call == SingleOrAsTuple("predicate", output, ret) IN
         IF IsOk(ret) /\ ret.v.t = "Bool"
         THEN IF ret.v.b THEN Ret(Ok(Number(i, FALSE)), <<call>>)
              ELSE Cont(i + 1, <<call>>)
         ELSE IF IsOk(ret)
         THEN Ret(type_error_with_slice(ExpectedBool, <<ret.v>>), <<call>>)
         ELSE Ret(ret, <<call>>)

position_end(i) == Ok(Null)

\* What a `next` on an iterator does when the internals of that iterator
\* are already borrowed: the RefCell refuses the second borrow and the
\* thread panics; no RuntimeResult is returned.
Panic == [r |-> "Panic", e |-> Error("panic", "already borrowed: BorrowMutError")]

\* fold as it would be if f were handed (item, accumulator).
fold_body_swapped_arguments(fold_result, raw, ret) ==
    LET output == collect_pair(raw) IN
    IF output.o = "Error" THEN Ret(Err(output.e), <<>>)
    ELSE LET call == CallRecord("f", "Separate", <<output.v, fold_result>>, ret) IN
         IF ret = Reenter
         THEN IF borrowed THEN Ret(Panic, <<call>>) ELSE Cont(fold_result, <<call>>)
         ELSE IF IsErr(ret) THEN Ret(ret, <<call>>)
         ELSE Cont(ret.v, <<call>>)

\* fold runs the whole loop, the calls of f included, inside
\* iter.borrow_internals(..): f runs while the internals are borrowed, and
\* an f that calls iterator.next on the same iterator panics there. (Were
\* the borrow released, that next would advance the source and f would go
\* on; the loop never gets there, so that arm only keeps the accumulator.)
fold_body(fold_result, raw, ret) ==
    LET output == collect_pair(raw) IN
    IF output.o = "Error" THEN Ret(Err(output.e), <<>>)
    ELSE LET call == CallRecord("f", "Separate", <<fold_result, output.v>>, ret) IN
         IF ret = Reenter
         THEN IF borrowed THEN Ret(Panic, <<call>>) ELSE Cont(fold_result, <<call>>)
         ELSE IF IsErr(ret) THEN Ret(ret, <<call>>)
         ELSE Cont(ret.v, <<call>>)

fold_end(fold_result) == Ok(fold_result)

\* last as it would be if it skipped an error and went on.
last_body_skipping_errors(last_result, raw, ret) ==
    LET output == collect_pair(raw) IN
    IF output.o = "Error" THEN Cont(last_result, <<>>)
    ELSE Cont(output.v, <<>>)

last_body(last_result, raw, ret) ==
    LET output == collect_pair(raw) IN
    IF output.o = "Error" THEN Ret(Err(output.e), <<>>)
    ELSE Cont(output.v, <<>>)

last_end(last_result) == Ok(last_result)

\* to_list and to_tuple push every value on a vector.
to_list_body(vec, raw, ret) ==
    LET output == collect_pair(raw) IN
    IF output.o = "Error" THEN Ret(Err(output.e), <<>>)
    ELSE Cont(Append(vec, output.v), <<>>)

to_list_end(vec) == Ok(List(vec))

to_tuple_body(vec, raw, ret) ==
    LET output == collect_pair(raw) IN
    IF output.o = "Error" THEN Ret(Err(output.e), <<>>)
    ELSE Cont(Append(vec, output.v), <<>>)

to_tuple_end(vec) == Ok(Tuple(vec))

\* sum and product
fold_with_operator_body(operator, fold_result, raw) ==
    LET output == collect_pair(raw) IN
    IF output.o = "Error" THEN Ret(Err(output.e), <<>>)
    ELSE LET r == run_binary_op(operator, fold_result, output.v)
             call == BinaryOpCall(operator, fold_result, output.v)
         IN IF IsErr(r) THEN Ret(r, <<call>>) ELSE Cont(r.v, <<call>>)

sum_body(fold_result, raw, ret) == fold_with_operator_body("Add", fold_result, raw)

product_body(fold_result, raw, ret) ==
    fold_with_operator_body("Multiply", fold_result, raw)

fold_with_operator_end(fold_result) == Ok(fold_result)

\* min and max without a key function
run_iterator_comparison_body(cmp_result, raw, invert_result) ==
    LET iter_output == collect_pair(raw) IN
    IF iter_output.o = "Error" THEN Ret(Err(iter_output.e), <<>>)
    ELSE LET value == iter_output.v IN
         IF cmp_result = None THEN Cont(Some(value), <<>>)
         ELSE LET c == compare_values(cmp_result[1], value, invert_result)
                  call == BinaryOpCall("Less", cmp_result[1], value)
              IN IF IsErr(c) THEN Ret(c, <<call>>) ELSE Cont(Some(c.v), <<call>>)

min_body(cmp_result, raw, ret) == run_iterator_comparison_body(cmp_result, raw, "No")

max_body(cmp_result, raw, ret) == run_iterator_comparison_body(cmp_result, raw, "Yes")

\* result.unwrap_or_default()
run_iterator_comparison_end(cmp_result) ==
    IF cmp_result = None THEN Ok(Null) ELSE Ok(cmp_result[1])

\* min and max with a key function
run_iterator_comparison_by_key_body(result_and_key, raw, ret, invert_result) ==
    LET iter_output == collect_pair(raw) IN
    IF iter_output.o = "Error" THEN Ret(Err(iter_output.e), <<>>)
    ELSE LET value == iter_output.v
             keycall == CallRecord("key_fn", "Single", <<value>>, ret)
         IN IF IsErr(ret) THEN Ret(ret, <<keycall>>)
            ELSE LET value_and_key == <<value, ret.v>> IN
                 IF result_and_key = None THEN Cont(Some(value_and_key), <<keycall>>)
                 ELSE LET c == compare_values_with_key(result_and_key[1], value_and_key,
                                                       invert_result)
                          call == BinaryOpCall("Less", result_and_key[1][2], ret.v)
                      IN IF IsErr(c) THEN Ret(c, <<keycall, call>>)
                         ELSE Cont(Some(c.v), <<keycall, call>>)

min_key_body(result_and_key, raw, ret) ==
    run_iterator_comparison_by_key_body(result_and_key, raw, ret, "No")

max_key_body(result_and_key, raw, ret) ==
    run_iterator_comparison_by_key_body(result_and_key, raw, ret, "Yes")

\* result_and_key.map_or(Value::Null, |(value, _)| value)
run_iterator_comparison_by_key_end(result_and_key) ==
    IF result_and_key = None THEN Ok(Null) ELSE Ok(result_and_key[1][1])

\* min_max without a key function: the accumulator is Option<(min, max)>
min_max_body(mm, raw, ret) ==
    LET iter_output == collect_pair(raw) IN
    IF iter_output.o = "Error" THEN Ret(Err(iter_output.e), <<>>)
    ELSE LET value == iter_output.v IN
         IF mm = None THEN Cont(Some(<<value, value>>), <<>>)
         ELSE LET lo == compare_values(mm[1][1], value, "No")
                  hi == compare_values(mm[1][2], value, "Yes")
                  locall == BinaryOpCall("Less", mm[1][1], value)
                  hicall == BinaryOpCall("Less", mm[1][2], value)
              IN IF IsErr(lo) THEN Ret(lo, <<locall>>)
                 ELSE IF IsErr(hi) THEN Ret(hi, <<locall, hicall>>)
                 ELSE Cont(Some(<<lo.v, hi.v>>), <<locall, hicall>>)

\* min_max's result as it would be with the two components swapped.
min_max_end_swapped(mm) ==
    IF mm = None THEN Ok(Null) ELSE Ok(Tuple(<<mm[1][2], mm[1][1]>>))

\* result.map_or(Null, |(min, max)| Tuple(vec![min, max].into()))
min_max_end(mm) ==
    IF mm = None THEN Ok(Null) ELSE Ok(Tuple(<<mm[1][1], mm[1][2]>>))

\* min_max with a key function as it would be if the key of the new value
\* were computed again for the comparison with the maximum.
min_max_key_body_key_per_comparison(mm, raw, ret) ==
    LET iter_output == collect_pair(raw) IN
    IF iter_output.o = "Error" THEN Ret(Err(iter_output.e), <<>>)
    ELSE LET value == iter_output.v
             keycall == CallRecord("key_fn", "Single", <<value>>, ret)
         IN IF IsErr(ret) THEN Ret(ret, <<keycall>>)
            ELSE LET value_and_key == <<value, ret.v>> IN
                 IF mm = None
                 THEN Cont(Some(<<value_and_key, value_and_key>>), <<keycall>>)
                 ELSE LET lo == compare_values_with_key(mm[1][1], value_and_key, "No")
                          hi == compare_values_with_key(mm[1][2], value_and_key, "Yes")
                          locall == BinaryOpCall("Less", mm[1][1][2], ret.v)
                          hicall == BinaryOpCall("Less", mm[1][2][2], ret.v)
                      IN IF IsErr(lo) THEN Ret(lo, <<keycall, locall>>)
                         ELSE IF IsErr(hi)
                         THEN Ret(hi, <<keycall, locall, keycall, hicall>>)
                         ELSE Cont(Some(<<lo.v, hi.v>>),
                                   <<keycall, locall, keycall, hicall>>)

\* min_max with a key function: Option<((min, key), (max, key))>
min_max_key_body(mm, raw, ret) ==
    LET iter_output == collect_pair(raw) IN
    IF iter_output.o = "Error" THEN Ret(Err(iter_output.e), <<>>)
    ELSE LET value == iter_output.v
             keycall == CallRecord("key_fn", "Single", <<value>>, ret)
         IN IF IsErr(ret) THEN Ret(ret, <<keycall>>)
            ELSE LET value_and_key == <<value, ret.v>> IN
                 IF mm = None
                 THEN Cont(Some(<<value_and_key, value_and_key>>), <<keycall>>)
                 ELSE LET lo == compare_values_with_key(mm[1][1], value_and_key, "No")
                          hi == compare_values_with_key(mm[1][2], value_and_key, "Yes")
                          locall == BinaryOpCall("Less", mm[1][1][2], ret.v)
                          hicall == BinaryOpCall("Less", mm[1][2][2], ret.v)
                      IN IF IsErr(lo) THEN Ret(lo, <<keycall, locall>>)
                         ELSE IF IsErr(hi) THEN Ret(hi, <<keycall, locall, hicall>>)
                         ELSE Cont(Some(<<lo.v, hi.v>>), <<keycall, locall, hicall>>)

\* result.map_or(Null, |((min, _), (max, _))| Tuple(vec![min, max].into()))
min_max_key_end(mm) ==
    IF mm = None THEN Ok(Null) ELSE Ok(Tuple(<<mm[1][1][1], mm[1][2][1]>>))

----------------------------------------------------------------------------
(* to_map (iterator.rs), num4_from_iterator (num4.rs) and from_bytes       *)
(* (string.rs): three more loops over a source.                            *)

Str(bytes) == [t |-> "Str", bytes |-> bytes]
Map(entries) == [t |-> "Map", data |-> entries]
Num4(components) == [t |-> "Num4", n |-> components]

\* Value::is_immutable as it would be if a Tuple counted as immutable.
is_immutable_with_tuples(v) ==
    v.t \in {"Null", "Bool", "Number", "Num2", "Num4", "Range", "Str", "Tuple"}

\* Value::is_immutable
is_immutable(v) ==
    v.t \in {"Null", "Bool", "Number", "Num2", "Num4", "Range", "Str"}

\* Value::type_as_string
type_as_string(v) ==
    CASE v.t = "Number" -> IF v.float THEN "Float" ELSE "Int"
      [] v.t = "Str" -> "String"
      [] OTHER -> v.t

\* runtime_error!(message, arguments)
runtime_error(msg, found) == Err([kind |-> "runtime", msg |-> msg, found |-> found])

OnlyImmutableKeys == "Only immutable Values can be used as keys"

\* DataMap::insert: the value of a key that is there is replaced where it
\* is, a new key goes to the end.
insert(entries, key, value) ==
    IF \E i \in 1..Len(entries) : entries[i][1] = key
    THEN [i \in 1..Len(entries) |->
             IF entries[i][1] = key THEN <<key, value>> ELSE entries[i]]
    ELSE Append(entries, <<key, value>>)

\* to_map as it would be without the arm for a tuple of two elements.
to_map_body_without_tuples(entries, output, ret) ==
    IF output.o = "Error" THEN Ret(Err(output.e), <<>>)
    ELSE LET key_value ==
                 IF output.o = "ValuePair" THEN <<output.a, output.b>>
                 ELSE <<output.v, Null>>
         IN IF ~is_immutable(key_value[1])
            THEN Ret(runtime_error(OnlyImmutableKeys,
                                   type_as_string(key_value[1])), <<>>)
            ELSE Cont(insert(entries, key_value[1], key_value[2]), <<>>)

\* to_map as it would be if it left a key that is in the map alone.
to_map_body_keeping_the_first(entries, output, ret) ==
    IF output.o = "Error" THEN Ret(Err(output.e), <<>>)
    ELSE LET key_value ==
                 IF output.o = "ValuePair" THEN <<output.a, output.b>>
                 ELSE IF output.v.t = "Tuple" /\ Len(output.v.data) = 2
                 THEN <<output.v.data[1], output.v.data[2]>>
                 ELSE <<output.v, Null>>
         IN IF ~is_immutable(key_value[1])
            THEN Ret(runtime_error(OnlyImmutableKeys,
                                   type_as_string(key_value[1])), <<>>)
            ELSE IF \E i \in 1..Len(entries) : entries[i][1] = key_value[1]
            THEN Cont(entries, <<>>)
            ELSE Cont(insert(entries, key_value[1], key_value[2]), <<>>)

to_map_body(entries, output, ret) ==
    IF output.o = "Error" THEN Ret(Err(output.e), <<>>)
    ELSE LET key_value ==
                 IF output.o = "ValuePair" THEN <<output.a, output.b>>
                 ELSE IF output.v.t = "Tuple" /\ Len(output.v.data) = 2
                 THEN <<output.v.data[1], output.v.data[2]>>
                 ELSE <<output.v, Null>>
         IN IF ~is_immutable(key_value[1])
            THEN Ret(runtime_error(OnlyImmutableKeys,
                                   type_as_string(key_value[1])), <<>>)
            ELSE Cont(insert(entries, key_value[1], key_value[2]), <<>>)

to_map_end(entries) == Ok(Map(entries))

\* The integers up to which every integer is a 32-bit float.
F32Exact == 2^24

\* ValueNumber -> f32 on an integer of magnitude below 2^25: the integer
\* itself up to 2^24, beyond it the nearest even integer, a tie going to the
\* multiple of 4.
as_f32(n) ==
    LET m == IF n < 0 THEN 0 - n ELSE n
        rounded == IF m <= F32Exact \/ m % 2 = 0 THEN m
                   ELSE IF (m + 1) % 4 = 0 THEN m + 1 ELSE m - 1
    IN IF n < 0 THEN 0 - rounded ELSE rounded

ExpectedNumber == "a Number"

\* num4_from_iterator as it would be without the take(4).
num4_from_iterator_body_without_take(num4, raw, ret) ==
    LET output == collect_pair(raw) IN
    IF output.o = "Error" THEN Ret(Err(output.e), <<>>)
    ELSE IF output.v.t # "Number"
    THEN Ret(type_error_with_slice(ExpectedNumber, <<output.v>>), <<>>)
    ELSE Cont([result |-> IF num4.i < 4
                          THEN [num4.result EXCEPT ![num4.i + 1] = as_f32(output.v.n)]
                          ELSE num4.result,
               i |-> num4.i + 1], <<>>)

\* num4_from_iterator: `num4.i` is the index that enumerate() hands out.
\* After its fourth output take(4) returns None without a next() on the
\* source, which ends the loop.
num4_from_iterator_body(num4, raw, ret) ==
    LET output == collect_pair(raw) IN
    IF output.o = "Error" THEN Ret(Err(output.e), <<>>)
    ELSE IF output.v.t # "Number"
    THEN Ret(type_error_with_slice(ExpectedNumber, <<output.v>>), <<>>)
    ELSE LET set == [num4.result EXCEPT ![num4.i + 1] = as_f32(output.v.n)] IN
         IF num4.i + 1 = 4 THEN Ret(Ok(Num4(set)), <<>>)
         ELSE Cont([result |-> set, i |-> num4.i + 1], <<>>)

num4_from_iterator_end(num4) == Ok(Num4(num4.result))

\* String::from_utf8's check: the bytes are well-formed UTF-8.
IsContinuation(b) == b >= 128 /\ b <= 191

RECURSIVE IsUtf8(_)
IsUtf8(bytes) ==
    IF bytes = <<>> THEN TRUE
    ELSE LET b == bytes[1]
             n == Len(bytes)
         IN CASE b <= 127 -> IsUtf8(Tail(bytes))
              [] b >= 194 /\ b <= 223 ->
                    /\ n >= 2 /\ IsContinuation(bytes[2])
                    /\ IsUtf8(SubSeq(bytes, 3, n))
              [] b >= 224 /\ b <= 239 ->
                    /\ n >= 3 /\ IsContinuation(bytes[2]) /\ IsContinuation(bytes[3])
                    /\ (b = 224 => bytes[2] >= 160)
                    /\ (b = 237 => bytes[2] <= 159)
                    /\ IsUtf8(SubSeq(bytes, 4, n))
              [] b >= 240 /\ b <= 244 ->
                    /\ n >= 4 /\ IsContinuation(bytes[2]) /\ IsContinuation(bytes[3])
                    /\ IsContinuation(bytes[4])
                    /\ (b = 240 => bytes[2] >= 144)
                    /\ (b = 244 => bytes[2] <= 143)
                    /\ IsUtf8(SubSeq(bytes, 5, n))
              [] OTHER -> FALSE

OutOfByteRange == "is out of the valid byte range"
ExpectedANumber == "a number"
FailedUtf8 == "Input failed UTF-8 validation"

\* from_bytes as it would be with `n as u8` for u8::try_from(n).
from_bytes_body_wrapping(bytes, raw, ret) ==
    LET output == collect_pair(raw) IN
    IF output.o = "Error" THEN Ret(Err(output.e), <<>>)
    ELSE IF output.v.t # "Number" THEN Ret(type_error(ExpectedANumber, output.v), <<>>)
    ELSE Cont(Append(bytes, output.v.n % 256), <<>>)

\* from_bytes: u8::try_from(n.as_i64()) fails outside 0..=255.
from_bytes_body(bytes, raw, ret) ==
    LET output == collect_pair(raw) IN
    IF output.o = "Error" THEN Ret(Err(output.e), <<>>)
    ELSE IF output.v.t # "Number" THEN Ret(type_error(ExpectedANumber, output.v), <<>>)
    ELSE IF output.v.n < 0 \/ output.v.n > 255
    THEN Ret(runtime_error(OutOfByteRange, output.v.n), <<>>)
    ELSE Cont(Append(bytes, output.v.n), <<>>)

from_bytes_end(bytes) ==
    IF IsUtf8(bytes) THEN Ok(Str(bytes))
    ELSE Err([kind |-> "runtime", msg |-> FailedUtf8])

\* The longest source num4_from_iterator is given: one output more than it
\* takes.
MaxNum4Len == 5

\* A number that is no 32-bit float.
BigInt == Number(F32Exact + 1, FALSE)

\* What the source of to_map yields: values that are keys, pairs, tuples of
\* two elements, a tuple of one, a tuple whose first element is a list, and
\* an error.
ToMapOutputs ==
    {OValue(Int1), OValue(Null), OValuePair(Int1, Int2), OValuePair(Int2, Int1),
     OValue(Tuple(<<Int2, Int2>>)), OValue(Tuple(<<Int1>>)),
     OValue(Tuple(<<List(<<>>), Int1>>)), OError(Error("source", "E1"))}

\* What the source of num4_from_iterator yields.
Num4Outputs ==
    {OValue(Int1), OValue(BigInt), OValue(Null), OError(Error("source", "E1"))}

\* What the source of from_bytes yields: `A`, the two bytes of `é`, numbers
\* that are no byte, a value and a pair that are no number, and an error.
FromBytesOutputs ==
    {OValue(Number(65, FALSE)), OValue(Number(195, FALSE)),
     OValue(Number(169, FALSE)), OValue(Number(300, FALSE)),
     OValue(Number(-1, FALSE)), OValue(Null), OValuePair(Int1, Int2),
     OError(Error("source", "E1"))}

\* The sources a call of the function o is given.
SourcesOf(o) ==
    CASE o = "to_map" -> UNION {[1..n -> ToMapOutputs] : n \in 0..MaxLen}
      [] o = "to_num4" -> UNION {[1..n -> Num4Outputs] : n \in 0..MaxNum4Len}
      [] o = "from_bytes" -> UNION {[1..n -> FromBytesOutputs] : n \in 0..MaxLen}
      [] OTHER -> Sources

\* Repl::new
ReplNew ==
    /\ input_history = <<>>
    /\ history_position = None
    /\ input = <<>>
    /\ cursor = None
    /\ process = "running"
    /\ last_key = "none"
    /\ enters = 0
    /\ printed = "none"

\* No ValueString has been made, and nothing has been run in the browser.
NoStrings == strings = {}
NoOutput == capture = <<>> /\ writes = <<>>

----------------------------------------------------------------------------
(* The machine.                                                            *)

Ops ==
    {"all", "any", "consume", "consume_fn", "count", "find", "fold", "last",
     "max", "max_key", "min", "min_key", "min_max", "min_max_key", "position",
     "product", "sum", "to_list", "to_tuple", "to_map", "to_num4",
     "from_bytes"}

\* The initial values a call can be given: fold's second argument, and the
\* optional one of sum and product (0 and 1 when it is left out).
InitialValues(o) ==
    CASE o = "fold" -> {Number(0, FALSE), Null}
      [] o = "sum" -> {Number(0, FALSE), Float1}
      [] o = "product" -> {Number(1, FALSE), Int2}
      [] OTHER -> {Null}

\* The accumulator as the function's `let mut ...` sets it before the loop.
InitialAcc(o, v) ==
    CASE o \in {"fold", "sum", "product"} -> v
      [] o \in {"count", "position"} -> 0
      [] o \in {"to_list", "to_tuple", "to_map", "from_bytes"} -> <<>>
      [] o = "to_num4" -> [result |-> <<0, 0, 0, 0>>, i |-> 0]
      [] o \in {"max", "max_key", "min", "min_key", "min_max", "min_max_key"} -> None
      [] OTHER -> Null

Init ==
    /\ pc = "idle"
    /\ op = "none"
    /\ initial_value = Null
    /\ src = <<>>
    /\ pos = 0
    /\ acc = Null
    /\ calls = <<>>
    /\ result = NoResult
    /\ borrowed = FALSE
    /\ call_args = <<>>
    /\ iterators = <<>>
    /\ copies = {}
    /\ ReplNew /\ NoStrings /\ NoOutput

\* A call of an iterator function whose arguments match the function's first
\* arms: vm.make_iterator(iterable) and the locals' initial values. fold then
\* enters iter.borrow_internals(..).
Call ==
    /\ pc = "idle"
    /\ \E o \in Ops :
         \E s \in SourcesOf(o), v \in InitialValues(o) :
            /\ op' = o
            /\ src' = s
            /\ initial_value' = v
            /\ acc' = InitialAcc(o, v)
            /\ borrowed' = (o = "fold")
    /\ pc' = "loop"
    /\ pos' = 0
    /\ UNCHANGED <<calls, result>>
    /\ UNCHANGED handle_vars
    /\ UNCHANGED side_vars

\* The calls of one pass, stamped with the step that made them and with
\* whether the iterator's internals were borrowed while they ran.
Stamp(log, at, held) ==
    [i \in 1..Len(log) |->
        [fn |-> log[i].fn, mode |-> log[i].mode, args |-> log[i].args,
         ret |-> log[i].ret, at |-> at, held |-> held]]

\* The loop body and the end of the function `o`.
Body(o, a, output, ret) ==
    CASE o = "all" -> all_body(a, output, ret)
      [] o = "any" -> any_body(a, output, ret)
      [] o = "consume" -> consume_body(a, output, ret)
      [] o = "consume_fn" -> consume_fn_body(a, output, ret)
      [] o = "count" -> count_body(a, output, ret)
      [] o = "find" -> find_body(a, output, ret)
      [] o = "fold" -> fold_body(a, output, ret)
      [] o = "last" -> last_body(a, output, ret)
      [] o = "max" -> max_body(a, output, ret)
      [] o = "max_key" -> max_key_body(a, output, ret)
      [] o = "min" -> min_body(a, output, ret)
      [] o = "min_key" -> min_key_body(a, output, ret)
      [] o = "min_max" -> min_max_body(a, output, ret)
      [] o = "min_max_key" -> min_max_key_body(a, output, ret)
      [] o = "position" -> position_body(a, output, ret)
      [] o = "product" -> product_body(a, output, ret)
      [] o = "sum" -> sum_body(a, output, ret)
      [] o = "to_list" -> to_list_body(a, output, ret)
      [] o = "to_tuple" -> to_tuple_body(a, output, ret)
      [] o = "to_map" -> to_map_body(a, output, ret)
      [] o = "to_num4" -> num4_from_iterator_body(a, output, ret)
      [] o = "from_bytes" -> from_bytes_body(a, output, ret)

End(o, a) ==
    CASE o = "all" -> all_end(a)
      [] o = "any" -> any_end(a)
      [] o \in {"consume", "consume_fn"} -> consume_end(a)
      [] o = "count" -> count_end(a)
      [] o = "find" -> find_end(a)
      [] o = "fold" -> fold_end(a)
      [] o = "last" -> last_end(a)
      [] o \in {"max", "min"} -> run_iterator_comparison_end(a)
      [] o \in {"max_key", "min_key"} -> run_iterator_comparison_by_key_end(a)
      [] o = "min_max" -> min_max_end(a)
      [] o = "min_max_key" -> min_max_key_end(a)
      [] o = "position" -> position_end(a)
      [] o \in {"product", "sum"} -> fold_with_operator_end(a)
      [] o = "to_list" -> to_list_end(a)
      [] o = "to_tuple" -> to_tuple_end(a)
      [] o = "to_map" -> to_map_end(a)
      [] o = "to_num4" -> num4_from_iterator_end(a)
      [] o = "from_bytes" -> from_bytes_end(a)

\* One pass through the `for output in iterator { .. }` of the function o,
\* whose user function returns one of rets, or the return that follows the
\* loop when next() is None.
LoopStep(o, rets) ==
    /\ pc = "loop"
    /\ IF pos = Len(src)
       THEN /\ pc' = "done"
            /\ result' = End(o, acc)
            /\ borrowed' = FALSE
            /\ UNCHANGED <<pos, acc, calls>>
       ELSE \E ret \in rets :
              LET step == Body(o, acc, src[pos + 1], ret) IN
              /\ pos' = pos + 1
              /\ calls' = calls \o Stamp(step.log, pos + 1, borrowed)
              /\ IF step.k = "ret"
                 THEN /\ pc' = "done"
                      /\ result' = step.v
                      /\ borrowed' = FALSE
                      /\ acc' = acc
                 ELSE /\ pc' = "loop"
                      /\ acc' = step.v
                      /\ UNCHANGED <<result, borrowed>>
    /\ UNCHANGED <<op, initial_value, src>>
    /\ UNCHANGED handle_vars
    /\ UNCHANGED side_vars

AllStep == op = "all" /\ LoopStep("all", PredicateResults)
AnyStep == op = "any" /\ LoopStep("any", PredicateResults)
ConsumeStep == op = "consume" /\ LoopStep("consume", NoCall)
ConsumeFnStep == op = "consume_fn" /\ LoopStep("consume_fn", ConsumeResults)
CountStep == op = "count" /\ LoopStep("count", NoCall)
FindStep == op = "find" /\ LoopStep("find", PredicateResults)
FoldStep == op = "fold" /\ LoopStep("fold", FoldResults)
LastStep == op = "last" /\ LoopStep("last", NoCall)
MaxStep == op = "max" /\ LoopStep("max", NoCall)
MaxKeyStep == op = "max_key" /\ LoopStep("max_key", KeyResults)
MinStep == op = "min" /\ LoopStep("min", NoCall)
MinKeyStep == op = "min_key" /\ LoopStep("min_key", KeyResults)
MinMaxStep == op = "min_max" /\ LoopStep("min_max", NoCall)
MinMaxKeyStep == op = "min_max_key" /\ LoopStep("min_max_key", KeyResults)
PositionStep == op = "position" /\ LoopStep("position", PredicateResults)
ProductStep == op = "product" /\ LoopStep("product", NoCall)
SumStep == op = "sum" /\ LoopStep("sum", NoCall)
ToListStep == op = "to_list" /\ LoopStep("to_list", NoCall)
ToTupleStep == op = "to_tuple" /\ LoopStep("to_tuple", NoCall)
ToMapStep == op = "to_map" /\ LoopStep("to_map", NoCall)
ToNum4Step == op = "to_num4" /\ LoopStep("to_num4", NoCall)
FromBytesStep == op = "from_bytes" /\ LoopStep("from_bytes", NoCall)

\* The loop of the function o as a function of the whole source: what the
\* call returns on the source s from its i-th output on, with the
\* accumulator a, rets[i] being what the user function returns at step i.
RECURSIVE RunLoop(_, _, _, _, _)
RunLoop(o, a, s, rets, i) ==
    IF i > Len(s) THEN End(o, a)
    ELSE LET step == Body(o, a, s[i], rets[i]) IN
         IF step.k = "ret" THEN step.v
         ELSE RunLoop(o, step.v, s, rets, i + 1)

Next ==
    \/ Call
    \/ AllStep \/ AnyStep \/ ConsumeStep \/ ConsumeFnStep \/ CountStep
    \/ FindStep \/ FoldStep \/ LastStep \/ MaxStep \/ MaxKeyStep \/ MinStep
    \/ MinKeyStep \/ MinMaxStep \/ MinMaxKeyStep \/ PositionStep
    \/ ProductStep \/ SumStep \/ ToListStep \/ ToTupleStep
    \/ ToMapStep \/ ToNum4Step \/ FromBytesStep

Spec == Init /\ [][Next]_vars

----------------------------------------------------------------------------
(* Iterator values: next, copy, skip, take and zip.                        *)
(*                                                                         *)
(* A Value::Iterator is a handle on a ValueIterator; cloning the value     *)
(* clones the handle, not the iterator. `iterators` maps each handle the   *)
(* program holds to the state of its iterator: a cursor on the source      *)
(* `src` or on items of its own, or a Take or Zip adaptor, whose own       *)
(* sources are the handles it was made on or, in a copy, iterators of its  *)
(* own.                                                                    *)

\* The most outputs the source of an iterator has, and the most iterators
\* a run holds.
MaxItems == 2
MaxIterators == 2

Iterator(id) == [t |-> "Iterator", id |-> id]

Cursor(p) == [k |-> "Cursor", pos |-> p]
Handle(id) == [k |-> "Handle", id |-> id]
Take(iter, n) == [k |-> "Take", iter |-> iter, remaining |-> n]
Items(data, p) == [k |-> "Items", data |-> data, pos |-> p]

\* A Zip adaptor on two iterators. Its next() pulls from iter_a, then from
\* iter_b. Whether it still pulls from iter_b when iter_a has ended or
\* failed is not fixed by what is known of it: `pulls_both` tells the two
\* adaptors apart.
Zip(iter_a, iter_b, pulls_both) ==
    [k |-> "Zip", iter_a |-> iter_a, iter_b |-> iter_b, pulls_both |-> pulls_both]

\* What the source of an iterator can yield.
IteratorOutputs ==
    {OValue(Int1), OValuePair(Int1, Int2), OError(Error("source", "E1"))}

IteratorSources == UNION {[1..n -> IteratorOutputs] : n \in 0..MaxItems}

\* What one next() comes to: the Option<Output> it returns, the state it
\* leaves the iterator in and the iterators as it leaves them.
Pulled(out, it, heap) == [out |-> out, it |-> it, heap |-> heap]

\* What Zip's next() makes of the two outputs: an error of the left, else
\* an error of the right, else None if either has ended, else the pair.
zip_output(a, b) ==
    IF a # None /\ a[1].o = "Error" THEN a
    ELSE IF b # None /\ b[1].o = "Error" THEN b
    ELSE IF a = None \/ b = None THEN None
    ELSE Some(OValuePair(collect_pair(a[1]).v, collect_pair(b[1]).v))

\* next() on the iterator in the state `it`. A Take that has handed out its
\* count returns None without asking its source.
RECURSIVE iterator_next(_, _)

\* next() as it would be if Zip pulled from iter_b before iter_a.
iterator_next_right_first(heap, it) ==
    CASE it.k = "Cursor" ->
            IF it.pos < Len(src)
            THEN Pulled(Some(src[it.pos + 1]), Cursor(it.pos + 1), heap)
            ELSE Pulled(None, it, heap)
      [] it.k = "Items" ->
            IF it.pos < Len(it.data)
            THEN Pulled(Some(it.data[it.pos + 1]), Items(it.data, it.pos + 1), heap)
            ELSE Pulled(None, it, heap)
      [] it.k = "Handle" ->
            LET inner == iterator_next(heap, heap[it.id]) IN
            Pulled(inner.out, it, [inner.heap EXCEPT ![it.id] = inner.it])
      [] it.k = "Take" ->
            IF it.remaining > 0
            THEN LET inner == iterator_next(heap, it.iter) IN
                 Pulled(inner.out, Take(inner.it, it.remaining - 1), inner.heap)
            ELSE Pulled(None, it, heap)
      [] it.k = "Zip" ->
            LET b == iterator_next(heap, it.iter_b)
                a == iterator_next(b.heap, it.iter_a)
            IN IF ~it.pulls_both /\ (b.out = None \/ b.out[1].o = "Error")
               THEN Pulled(b.out, Zip(it.iter_a, b.it, FALSE), b.heap)
               ELSE Pulled(zip_output(a.out, b.out), Zip(a.it, b.it, it.pulls_both),
                           a.heap)

iterator_next(heap, it) ==
    CASE it.k = "Cursor" ->
            IF it.pos < Len(src)
            THEN Pulled(Some(src[it.pos + 1]), Cursor(it.pos + 1), heap)
            ELSE Pulled(None, it, heap)
      [] it.k = "Handle" ->
            LET inner == iterator_next(heap, heap[it.id]) IN
            Pulled(inner.out, it, [inner.heap EXCEPT ![it.id] = inner.it])
      [] it.k = "Take" ->
            IF it.remaining > 0
            THEN LET inner == iterator_next(heap, it.iter) IN
                 Pulled(inner.out, Take(inner.it, it.remaining - 1), inner.heap)
            ELSE Pulled(None, it, heap)
      [] it.k = "Items" ->
            IF it.pos < Len(it.data)
            THEN Pulled(Some(it.data[it.pos + 1]), Items(it.data, it.pos + 1), heap)
            ELSE Pulled(None, it, heap)
      [] it.k = "Zip" ->
            LET a == iterator_next(heap, it.iter_a)
                b == iterator_next(a.heap, it.iter_b)
            IN IF ~it.pulls_both /\ (a.out = None \/ a.out[1].o = "Error")
               THEN Pulled(a.out, Zip(a.it, it.iter_b, FALSE), a.heap)
               ELSE Pulled(zip_output(a.out, b.out), Zip(a.it, b.it, it.pulls_both),
                           b.heap)

\* ValueIterator::make_copy: an iterator in the same state; an adaptor
\* copies its source as well, so the copy shares no iterator.
RECURSIVE make_copy(_, _)
make_copy(heap, it) ==
    CASE it.k = "Cursor" -> it
      [] it.k = "Handle" -> make_copy(heap, heap[it.id])
      [] it.k = "Take" -> Take(make_copy(heap, it.iter), it.remaining)
      [] it.k = "Items" -> it
      [] it.k = "Zip" ->
            Zip(make_copy(heap, it.iter_a), make_copy(heap, it.iter_b),
                it.pulls_both)

is_iterable(v) ==
    v.t \in {"Num2", "Num4", "Range", "List", "Tuple", "Map", "Str", "Iterator"}

\* The counts skip and take are called with.
Counts == {Number(n, FALSE) : n \in {-1, 0, 1}}

\* The arguments next and copy are called with: the handle of an iterator
\* the program holds, or a value that is no iterator.
IteratorArgs == {<<Iterator(id)>> : id \in DOMAIN iterators} \cup {<<Null>>}

\* The arguments skip and take are called with.
IterableAndCountArgs ==
    {<<Iterator(id), n>> : id \in DOMAIN iterators, n \in Counts}
        \cup {<<Null, Number(1, FALSE)>>}

ExpectedIterator == "an Iterator as argument"
ExpectedIterableAndCount ==
    "an iterable value and non-negative number as arguments"

\* What a call comes to: its result and the iterators as it leaves them.
Returned(r, heap) == [result |-> r, heap |-> heap]

\* The two arms of next after the pull.
NextResult(out) ==
    LET output == IF out = None THEN None ELSE Some(collect_pair(out[1])) IN
    IF output = None THEN Ok(Null)
    ELSE IF output[1].o = "Error" THEN Err(output[1].e)
    ELSE Ok(output[1].v)

\* next as it would be if it advanced a copy of the iterator.
next_on_a_copy(heap, arguments) ==
    IF arguments[1].t = "Iterator"
    THEN LET pulled == iterator_next(heap, make_copy(heap, Handle(arguments[1].id)))
         IN Returned(NextResult(pulled.out), heap)
    ELSE Returned(type_error_with_slice(ExpectedIterator, arguments), heap)

\* iterator.next
next(heap, arguments) ==
    IF arguments[1].t = "Iterator"
    THEN LET pulled == iterator_next(heap, Handle(arguments[1].id)) IN
         Returned(NextResult(pulled.out), pulled.heap)
    ELSE Returned(type_error_with_slice(ExpectedIterator, arguments), heap)

\* copy as it would be if it cloned the handle.
copy_cloning_the_handle(heap, arguments) ==
    IF arguments[1].t = "Iterator"
    THEN Returned(Ok(arguments[1]), heap)
    ELSE Returned(type_error_with_slice(ExpectedIterator, arguments), heap)

\* iterator.copy
copy(heap, arguments) ==
    IF arguments[1].t = "Iterator"
    THEN Returned(Ok(Iterator(Len(heap) + 1)),
                  Append(heap, make_copy(heap, Handle(arguments[1].id))))
    ELSE Returned(type_error_with_slice(ExpectedIterator, arguments), heap)

\* The `for _ in 0..n` of skip: n times next(), returning at an error.
RECURSIVE skip_loop(_, _, _)
skip_loop(heap, id, n) ==
    IF n = 0 THEN [error |-> None, heap |-> heap]
    ELSE LET pulled == iterator_next(heap, Handle(id)) IN
         IF pulled.out # None /\ pulled.out[1].o = "Error"
         THEN [error |-> Some(pulled.out[1].e), heap |-> pulled.heap]
         ELSE skip_loop(pulled.heap, id, n - 1)

\* skip as it would be if it went on after an error among the skipped.
skip_ignoring_errors(heap, arguments) ==
    IF is_iterable(arguments[1]) /\ arguments[2].t = "Number"
          /\ arguments[2].n >= 0
    THEN LET id == arguments[1].id
             skipped == skip_loop(heap, id, arguments[2].n)
         IN Returned(Ok(Iterator(id)), skipped.heap)
    ELSE Returned(type_error_with_slice(ExpectedIterableAndCount, arguments),
                  heap)

\* iterator.skip: vm.make_iterator hands back the handle it is given.
skip(heap, arguments) ==
    IF is_iterable(arguments[1]) /\ arguments[2].t = "Number"
          /\ arguments[2].n >= 0
    THEN LET id == arguments[1].id
             skipped == skip_loop(heap, id, arguments[2].n)
         IN IF skipped.error # None
            THEN Returned(Err(skipped.error[1]), skipped.heap)
            ELSE Returned(Ok(Iterator(id)), skipped.heap)
    ELSE Returned(type_error_with_slice(ExpectedIterableAndCount, arguments),
                  heap)

\* take as it would be without the `*n >= 0.0` of its guard.
take_unguarded(heap, arguments) ==
    IF is_iterable(arguments[1]) /\ arguments[2].t = "Number"
    THEN Returned(Ok(Iterator(Len(heap) + 1)),
                  Append(heap, Take(Handle(arguments[1].id),
                                    IF arguments[2].n < 0 THEN 0
                                    ELSE arguments[2].n)))
    ELSE Returned(type_error_with_slice(ExpectedIterableAndCount, arguments),
                  heap)

\* iterator.take: a new Take adaptor on the handle.
take(heap, arguments) ==
    IF is_iterable(arguments[1]) /\ arguments[2].t = "Number"
          /\ arguments[2].n >= 0
    THEN Returned(Ok(Iterator(Len(heap) + 1)),
                  Append(heap, Take(Handle(arguments[1].id), arguments[2].n)))
    ELSE Returned(type_error_with_slice(ExpectedIterableAndCount, arguments),
                  heap)

\* The program holds one iterator, on a source that has not been pulled.
IteratorInit ==
    /\ pc = "idle"
    /\ op = "none"
    /\ initial_value = Null
    /\ src \in IteratorSources
    /\ pos = 0
    /\ acc = Null
    /\ calls = <<>>
    /\ result = NoResult
    /\ borrowed = FALSE
    /\ call_args = <<>>
    /\ iterators = <<Cursor(0)>>
    /\ copies = {}
    /\ ReplNew /\ NoStrings /\ NoOutput

\* A call of the function o with the arguments a, which returns `returned`.
Returns(o, a, returned) ==
    /\ op' = o
    /\ call_args' = a
    /\ result' = returned.result
    /\ iterators' = returned.heap
    /\ UNCHANGED src
    /\ UNCHANGED loop_vars
    /\ UNCHANGED side_vars

NextCall ==
    \E a \in IteratorArgs :
        /\ Returns("next", a, next(iterators, a))
        /\ UNCHANGED copies

CopyCall ==
    \E a \in IteratorArgs :
        LET returned == copy(iterators, a) IN
        /\ Len(returned.heap) <= MaxIterators
        /\ Returns("copy", a, returned)
        /\ copies' = IF IsOk(returned.result)
                     THEN copies \cup {<<a[1].id, returned.result.v.id>>}
                     ELSE copies

SkipCall ==
    \E a \in IterableAndCountArgs :
        /\ Returns("skip", a, skip(iterators, a))
        /\ UNCHANGED copies

TakeCall ==
    \E a \in IterableAndCountArgs :
        LET returned == take(iterators, a) IN
        /\ Len(returned.heap) <= MaxIterators
        /\ Returns("take", a, returned)
        /\ UNCHANGED copies

IteratorNext == NextCall \/ CopyCall \/ SkipCall \/ TakeCall

IteratorSpec == IteratorInit /\ [][IteratorNext]_vars

ExpectedTwoIterables == "two iterable values as arguments"

\* iterator.zip: a new Zip adaptor on the two handles.
zip(heap, arguments, pulls_both) ==
    IF Len(arguments) = 2 /\ is_iterable(arguments[1]) /\ is_iterable(arguments[2])
    THEN Returned(Ok(Iterator(Len(heap) + 1)),
                  Append(heap, Zip(Handle(arguments[1].id),
                                   Handle(arguments[2].id), pulls_both)))
    ELSE Returned(type_error_with_slice(ExpectedTwoIterables, arguments), heap)

\* What the two sources of a zip can yield.
LeftOutputs ==
    {OValue(Int1), OValuePair(Int1, Int2), OError(Error("source", "E1"))}
RightOutputs == {OValue(Int2), OError(Error("source", "E2"))}

LeftSources == UNION {[1..n -> LeftOutputs] : n \in 0..MaxItems}
RightSources == UNION {[1..n -> RightOutputs] : n \in 0..MaxItems}

\* The arguments zip is called with: two handles the program holds, the
\* same one twice among them, or a value that is not iterable.
ZipArgs ==
    {<<Iterator(i), Iterator(j)>> : i, j \in DOMAIN iterators}
        \cup {<<Null, Iterator(1)>>}

\* The program holds two iterators, on two sources that have not been
\* pulled.
ZipInit ==
    /\ pc = "idle"
    /\ op = "none"
    /\ initial_value = Null
    /\ src = <<>>
    /\ pos = 0
    /\ acc = Null
    /\ calls = <<>>
    /\ result = NoResult
    /\ borrowed = FALSE
    /\ call_args = <<>>
    /\ \E a \in LeftSources, b \in RightSources :
          iterators = <<Items(a, 0), Items(b, 0)>>
    /\ copies = {}
    /\ ReplNew /\ NoStrings /\ NoOutput

\* The one call of zip that the program makes.
ZipCall ==
    \E a \in ZipArgs, pulls_both \in BOOLEAN :
        LET returned == zip(iterators, a, pulls_both) IN
        /\ \A id \in DOMAIN iterators : iterators[id].k # "Zip"
        /\ Returns("zip", a, returned)
        /\ UNCHANGED copies

ZipNext == ZipCall \/ NextCall

ZipSpec == ZipInit /\ [][ZipNext]_vars

----------------------------------------------------------------------------
(* num4.with (num4.rs): a call is one step from its arguments to its       *)
(* result.                                                                 *)

\* ValueNumber -> usize on an integer: `as usize` keeps the 64 bits, so a
\* negative n becomes 2^64 + n. That number is kept as the pair of n and
\* `wrapped`, the integers of the checker being narrower.
as_usize(n) == [wrapped |-> n < 0, n |-> n]

\* The arms 0, 1, 2 and 3 of a match on a usize.
IsIndex(u) == ~u.wrapped /\ u.n \in 0..3

InvalidIndex == "num4.with: invalid index"
ExpectedNum4 == "a Num4 as argument"

\* num4_error
num4_error(unexpected) == type_error_with_slice(ExpectedNum4, unexpected)

\* num4.with as it would be if an index past the last set the last
\* component.
with_clamped_index(arguments) ==
    IF /\ Len(arguments) = 3
       /\ arguments[1].t = "Num4"
       /\ arguments[2].t = "Number"
       /\ arguments[3].t = "Number"
    THEN LET n == arguments[1].n
             other == as_usize(arguments[2].n)
             i == IF IsIndex(other) THEN other.n ELSE 3
         IN Ok(Num4([n EXCEPT ![i + 1] = as_f32(arguments[3].n)]))
    ELSE num4_error(arguments)

\* num4.with: `result` is a copy of n, of which the match on the index sets
\* one component, or returns the error.
with(arguments) ==
    IF /\ Len(arguments) = 3
       /\ arguments[1].t = "Num4"
       /\ arguments[2].t = "Number"
       /\ arguments[3].t = "Number"
    THEN LET n == arguments[1].n
             other == as_usize(arguments[2].n)
         IN IF IsIndex(other)
            THEN Ok(Num4([n EXCEPT ![other.n + 1] = as_f32(arguments[3].n)]))
            ELSE runtime_error(InvalidIndex, other)
    ELSE num4_error(arguments)

\* The Num4s, the indices and the values that num4.with is called with, and
\* arguments that are no (Num4, Number, Number).
Num4s == {Num4(c) : c \in [1..4 -> {0, 1}]}
Indices == {Number(i, FALSE) : i \in -1..5}
WithValues == {Int2, BigInt, Number(0 - 1, FALSE)}

WithArgs ==
    {<<n, i, v>> : n \in Num4s, i \in Indices, v \in WithValues}
        \cup {<<Int1, Int1, Int2>>, <<Num4(<<0, 0, 0, 0>>), Int1>>,
              <<Num4(<<0, 0, 0, 0>>), Null, Int2>>}

\* A program about to call num4.with on arguments it holds; `initial_value`
\* is the first of them as the caller holds it.
Num4Init ==
    /\ pc = "idle"
    /\ op = "with"
    /\ call_args \in WithArgs
    /\ initial_value = call_args[1]
    /\ src = <<>>
    /\ pos = 0
    /\ acc = Null
    /\ calls = <<>>
    /\ result = NoResult
    /\ borrowed = FALSE
    /\ iterators = <<>>
    /\ copies = {}
    /\ ReplNew /\ NoStrings /\ NoOutput

WithCall ==
    /\ pc = "idle"
    /\ op = "with"
    /\ result' = with(call_args)
    /\ pc' = "done"
    /\ UNCHANGED <<op, initial_value, src, pos, acc, calls, borrowed>>
    /\ UNCHANGED handle_vars
    /\ UNCHANGED side_vars

Num4Next == WithCall

Num4Spec == Num4Init /\ [][Num4Next]_vars

----------------------------------------------------------------------------

(* The REPL (cli/src/repl.rs): every key read is one step of Repl::run's   *)
(* loop. Positions are usize: a subtraction below 0 panics or wraps to a   *)
(* number that no String or Vec can be indexed with, which panics as well. *)

\* The most entries the history gets and the most characters a line gets.
MaxHistory == 2
MaxInput == 2

\* The characters that are typed.
Chars == {"a", "b"}

\* What parsing and running a line comes to.
Outcomes == {"result", "parse error", "runtime error"}

\* The fields of Repl that a key leaves alone, besides those it names.
ReplKey(k) ==
    /\ process = "running"
    /\ last_key' = k
    /\ UNCHANGED <<pc, op, initial_value, src, pos, acc, calls, result, borrowed>>
    /\ UNCHANGED handle_vars
    /\ UNCHANGED <<string_vars, wasm_vars>>

ReplInit ==
    /\ pc = "idle"
    /\ op = "none"
    /\ initial_value = Null
    /\ src = <<>>
    /\ pos = 0
    /\ acc = Null
    /\ calls = <<>>
    /\ result = NoResult
    /\ borrowed = FALSE
    /\ call_args = <<>>
    /\ iterators = <<>>
    /\ copies = {}
    /\ ReplNew /\ NoStrings /\ NoOutput

\* Key::Up as it would be if it started from the oldest entry.
KeyUp_from_the_oldest ==
    /\ ReplKey("Up")
    /\ IF input_history # <<>>
       THEN LET new_position ==
                    IF history_position # None
                    THEN IF history_position[1] > 0
                         THEN history_position[1] - 1
                         ELSE 0
                    ELSE 0
            IN IF new_position < Len(input_history)
               THEN /\ input' = input_history[new_position + 1]
                    /\ history_position' = Some(new_position)
                    /\ UNCHANGED process
               ELSE /\ process' = "panicked"
                    /\ UNCHANGED <<input, history_position>>
       ELSE UNCHANGED <<input, history_position, process>>
    /\ printed' = "none"
    /\ UNCHANGED <<input_history, cursor, enters>>

\* Key::Up
KeyUp ==
    /\ ReplKey("Up")
    /\ IF input_history # <<>>
       THEN LET new_position ==
                    IF history_position # None
                    THEN IF history_position[1] > 0
                         THEN history_position[1] - 1
                         ELSE 0
                    ELSE Len(input_history) - 1
            IN IF new_position < Len(input_history)
               THEN /\ input' = input_history[new_position + 1]
                    /\ history_position' = Some(new_position)
                    /\ UNCHANGED process
               ELSE /\ process' = "panicked"
                    /\ UNCHANGED <<input, history_position>>
       ELSE UNCHANGED <<input, history_position, process>>
    /\ printed' = "none"
    /\ UNCHANGED <<input_history, cursor, enters>>

\* Key::Down as it would be without the comparison with the last index.
KeyDown_past_the_newest ==
    /\ ReplKey("Down")
    /\ LET position ==
               IF history_position # None
               THEN Some(history_position[1] + 1)
               ELSE None
       IN /\ history_position' = position
          /\ IF position # None /\ position[1] < Len(input_history)
             THEN input' = input_history[position[1] + 1]
             ELSE input' = <<>>
          /\ UNCHANGED process
    /\ printed' = "none"
    /\ UNCHANGED <<input_history, cursor, enters>>

\* Key::Down. With a position and an empty history, `len() - 1` goes below
\* 0.
KeyDown ==
    /\ ReplKey("Down")
    /\ IF history_position # None /\ input_history = <<>>
       THEN /\ process' = "panicked"
            /\ UNCHANGED <<input, history_position>>
       ELSE LET position ==
                    IF history_position # None
                    THEN IF history_position[1] < Len(input_history) - 1
                         THEN Some(history_position[1] + 1)
                         ELSE None
                    ELSE None
            IN IF position # None /\ position[1] >= Len(input_history)
               THEN /\ process' = "panicked"
                    /\ history_position' = position
                    /\ UNCHANGED input
               ELSE /\ history_position' = position
                    /\ input' = IF position # None
                                THEN input_history[position[1] + 1]
                                ELSE <<>>
                    /\ UNCHANGED process
    /\ printed' = "none"
    /\ UNCHANGED <<input_history, cursor, enters>>

\* String::remove(index)
remove(string, index) ==
    [i \in 1..(Len(string) - 1) |->
        IF i <= index THEN string[i] ELSE string[i + 1]]

\* String::insert(index, c)
insert_char(string, index, c) ==
    [i \in 1..(Len(string) + 1) |->
        IF i <= index THEN string[i]
        ELSE IF i = index + 1 THEN c
        ELSE string[i - 1]]

\* String::pop
pop(string) ==
    IF string = <<>> THEN string ELSE SubSeq(string, 1, Len(string) - 1)

\* Key::Backspace. With a cursor, `position - 1` goes below 0 at position 0
\* and remove panics past the end.
KeyBackspace ==
    /\ ReplKey("Backspace")
    /\ IF cursor # None
       THEN IF cursor[1] = 0 \/ cursor[1] - 1 >= Len(input)
            THEN /\ process' = "panicked"
                 /\ UNCHANGED <<input, cursor>>
            ELSE LET new_position == cursor[1] - 1 IN
                 /\ input' = remove(input, new_position)
                 /\ cursor' = IF input' = <<>> THEN None ELSE Some(new_position)
                 /\ UNCHANGED process
       ELSE /\ input' = pop(input)
            /\ UNCHANGED <<cursor, process>>
    /\ printed' = "none"
    /\ UNCHANGED <<input_history, history_position, enters>>

\* Key::Char('\n') as it would be if an empty line were not recorded.
KeyEnter_skipping_empty_lines ==
    /\ ReplKey("Enter")
    /\ Len(input_history) < MaxHistory
    /\ \E outcome \in Outcomes :
          printed' = IF outcome = "result" THEN "result" ELSE "error"
    /\ input_history' = IF input = <<>> THEN input_history
                        ELSE Append(input_history, input)
    /\ history_position' = None
    /\ input' = <<>>
    /\ enters' = enters + 1
    /\ UNCHANGED <<cursor, process>>

\* Key::Char('\n'): the line is parsed and run, and its result or the error
\* is printed; then the line goes to the history.
KeyEnter ==
    /\ ReplKey("Enter")
    /\ Len(input_history) < MaxHistory
    /\ \E outcome \in Outcomes :
          printed' = IF outcome = "result" THEN "result" ELSE "error"
    /\ input_history' = Append(input_history, input)
    /\ history_position' = None
    /\ input' = <<>>
    /\ enters' = enters + 1
    /\ UNCHANGED <<cursor, process>>

\* Key::Char(c) as it would be if it kept the cursor behind the character.
KeyChar_tracking_the_cursor ==
    /\ ReplKey("Char")
    /\ Len(input) < MaxInput
    /\ \E c \in Chars :
          /\ input' = Append(input, c)
          /\ cursor' = Some(Len(input) + 1)
          /\ UNCHANGED process
    /\ printed' = "none"
    /\ UNCHANGED <<input_history, history_position, enters>>

\* Key::Char(c), c being no newline. With a cursor, insert panics past the
\* end.
KeyChar ==
    /\ ReplKey("Char")
    /\ Len(input) < MaxInput
    /\ \E c \in Chars :
          IF cursor # None
          THEN IF cursor[1] > Len(input)
               THEN /\ process' = "panicked"
                    /\ UNCHANGED <<input, cursor>>
               ELSE /\ input' = insert_char(input, cursor[1], c)
                    /\ cursor' = Some(cursor[1] + 1)
                    /\ UNCHANGED process
          ELSE /\ input' = Append(input, c)
               /\ UNCHANGED <<cursor, process>>
    /\ printed' = "none"
    /\ UNCHANGED <<input_history, history_position, enters>>

\* Key::Ctrl('c')
KeyCtrlC ==
    /\ ReplKey("CtrlC")
    /\ input' = <<>>
    /\ printed' = "none"
    /\ UNCHANGED <<input_history, history_position, cursor, process, enters>>

\* Key::Ctrl('d') as it would be without the test of the line.
KeyCtrlD_whatever_the_line ==
    /\ ReplKey("CtrlD")
    /\ process' = "exited"
    /\ printed' = "none"
    /\ UNCHANGED <<input_history, history_position, input, cursor, enters>>

\* Key::Ctrl('d')
KeyCtrlD ==
    /\ ReplKey("CtrlD")
    /\ process' = IF input = <<>> THEN "exited" ELSE process
    /\ printed' = "none"
    /\ UNCHANGED <<input_history, history_position, input, cursor, enters>>

\* Any other key.
KeyOther ==
    /\ ReplKey("Other")
    /\ printed' = "none"
    /\ UNCHANGED <<input_history, history_position, input, cursor, process,
                   enters>>

ReplNext ==
    \/ KeyUp
    \/ KeyDown
    \/ KeyBackspace
    \/ KeyEnter
    \/ KeyChar
    \/ KeyCtrlC
    \/ KeyCtrlD
    \/ KeyOther

ReplSpec == ReplInit /\ [][ReplNext]_vars

----------------------------------------------------------------------------

(* ValueString (value_string.rs): a shared buffer and the bounds of a      *)
(* slice of it.                                                            *)
(*                                                                         *)
(* A buffer is the sequence of its bytes, of which only the kind matters:  *)
(* "g" is the first byte of a grapheme, "c" the first byte of a further    *)
(* character of the same grapheme, "x" a further byte of a character.      *)
(* A usize is written as the integer congruent to it modulo 2^64 that is   *)
(* nearest to 0, so that -1 is usize::MAX; adding and subtracting such     *)
(* integers is the wrapping arithmetic of a release build, and a debug     *)
(* build panics where the usize would overflow.                            *)

\* The most ValueStrings a run makes.
MaxStrings == 2

Builds == {"debug", "release"}

Buffers ==
    {<<>>, <<"g", "x", "g">>, <<"g", "c", "x">>}

\* The numbers that bounds and indices are given as: usize::MAX - 1,
\* usize::MAX, and 0 up to the length of the longest buffer.
Usizes == -2..3

\* a <= b on usize
ule(a, b) == IF (a < 0) = (b < 0) THEN a <= b ELSE b < 0

\* a + b overflows usize: a - b does.
add_overflows(a, b) ==
    \/ a < 0 /\ b < 0
    \/ a < 0 /\ b >= 0 /\ a + b >= 0
    \/ b < 0 /\ a >= 0 /\ a + b >= 0
sub_overflows(a, b) == ~ule(b, a)

Range(start, end) == [start |-> start, end |-> end]
Ranges == {Range(start, end) : start, end \in Usizes}

ValueString(string, bounds) == [string |-> string, bounds |-> bounds]

\* What a function of ValueString comes to in a build where it panics.
Panicked == <<[panic |-> TRUE]>>

\* str::is_char_boundary
is_char_boundary(string, index) ==
    \/ index = 0
    \/ index = Len(string)
    \/ index > 0 /\ index < Len(string) /\ string[index + 1] # "x"

\* str::get(range).is_some()
get_is_some(string, range) ==
    /\ ule(range.start, range.end)
    /\ ule(range.end, Len(string))
    /\ is_char_boundary(string, range.start)
    /\ is_char_boundary(string, range.end)

\* ValueString::new
new(string) == ValueString(string, Range(0, Len(string)))

\* ValueString::empty
empty == new(<<>>)

\* ValueString::new_with_bounds
new_with_bounds(string, bounds) ==
    IF get_is_some(string, bounds) THEN Some(ValueString(string, bounds))
    ELSE None

\* ValueString::with_bounds
with_bounds(self, range, build) ==
    LET end == range.end + self.bounds.start
        start == range.start + self.bounds.start
    IN IF build = "debug" /\ (\/ add_overflows(range.end, self.bounds.start)
                              \/ add_overflows(range.start, self.bounds.start))
       THEN Panicked
       ELSE IF /\ ule(end, self.bounds.end)
               /\ get_is_some(self.string, Range(start, end))
       THEN Some(ValueString(self.string, Range(start, end)))
       ELSE None

\* ValueString::as_str, and str::len on it
as_str(self) == SubSeq(self.string, self.bounds.start + 1, self.bounds.end)
len(self) == Len(as_str(self))

\* str::grapheme_indices(true) on as_str: the offset and the length of
\* every grapheme of the slice, in order. A slice that starts inside a
\* grapheme has the rest of it as its first.
grapheme_indices(self) ==
    LET slice == as_str(self)
        starts == {i \in 0..(Len(slice) - 1) : i = 0 \/ slice[i + 1] = "g"}
        n == Cardinality(starts)
        nth == [k \in 1..n |->
                   CHOOSE i \in starts : Cardinality({j \in starts : j < i}) = k - 1]
    IN [k \in 1..n |->
           [start |-> nth[k],
            len |-> (IF k < n THEN nth[k + 1] ELSE Len(slice)) - nth[k]]]

\* ValueString::grapheme_count
grapheme_count(self) == Len(grapheme_indices(self))

\* Where the loop of with_grapheme_indices ends: with a return, with a
\* panic, or behind the loop with result_start and result_end.
LoopEnd(k, result_start, result_end) ==
    [k |-> k, result_start |-> result_start, result_end |-> result_end]

\* The loop of with_grapheme_indices from its pass i on. `end_unwrapped -
\* 1` is computed in every pass, `start - 1` only while result_start is
\* None, which it is not if start is 0.
RECURSIVE grapheme_loop(_, _, _, _, _, _)
grapheme_loop(graphemes, i, start, end, result_start, build) ==
    IF i >= Len(graphemes) THEN LoopEnd("done", result_start, None)
    ELSE LET grapheme == graphemes[i + 1]
             end_unwrapped == IF end = None THEN graphemes[Len(graphemes)].start
                                                 + graphemes[Len(graphemes)].len
                              ELSE end[1]
             found == result_start = None /\ i = start - 1
             next_start == IF found THEN Some(grapheme.start + grapheme.len)
                           ELSE result_start
         IN IF found /\ end = None THEN LoopEnd("done", next_start, None)
            ELSE IF build = "debug" /\ sub_overflows(end_unwrapped, 1)
            THEN LoopEnd("panic", None, None)
            ELSE IF i = end_unwrapped - 1
            THEN IF start = end_unwrapped THEN LoopEnd("return", None, None)
                 ELSE LoopEnd("done", next_start,
                              Some(grapheme.start + grapheme.len))
            ELSE grapheme_loop(graphemes, i + 1, start, end, next_start, build)

\* ValueString::with_grapheme_indices. The debug_assert is a panic in a
\* debug build and nothing in a release build.
with_grapheme_indices(self, start, end, build) ==
    LET end_unwrapped == IF end = None THEN len(self) ELSE end[1]
        loop == grapheme_loop(grapheme_indices(self), 0, start, end,
                              IF start = 0 THEN Some(0) ELSE None, build)
    IN IF build = "debug" /\ ~ule(start, end_unwrapped) THEN Panicked
       ELSE IF loop.k = "panic" THEN Panicked
       ELSE IF loop.k = "return" THEN Some(empty)
       ELSE IF loop.result_start # None /\ loop.result_end # None
       THEN with_bounds(self, Range(loop.result_start[1], loop.result_end[1]), build)
       ELSE IF loop.result_start # None /\ end = None
       THEN with_bounds(self, Range(loop.result_start[1], len(self)), build)
       ELSE None

\* The ends with_grapheme_indices is given.
Ends == {None} \cup {Some(n) : n \in Usizes}

StringInit ==
    /\ pc = "idle"
    /\ op = "none"
    /\ initial_value = Null
    /\ src = <<>>
    /\ pos = 0
    /\ acc = Null
    /\ calls = <<>>
    /\ result = NoResult
    /\ borrowed = FALSE
    /\ call_args = <<>>
    /\ iterators = <<>>
    /\ copies = {}
    /\ ReplNew /\ NoStrings /\ NoOutput

\* A call of the function o of ValueString, which returns the Option
\* `returned`: the program keeps the string it gets.
StringCall(o, returned) ==
    /\ op' = o
    /\ result' = returned
    /\ strings' = IF returned # None /\ returned # Panicked
                  THEN strings \cup {returned[1]}
                  ELSE strings
    /\ Cardinality(strings') <= MaxStrings
    /\ UNCHANGED <<pc, initial_value, src, pos, acc, calls, borrowed, call_args,
                   iterators, copies>>
    /\ UNCHANGED <<repl_vars, wasm_vars>>

NewCall ==
    \E string \in Buffers :
        StringCall("new", Some(new(string)))

NewWithBoundsCall ==
    \E string \in Buffers, bounds \in Ranges :
        StringCall("new_with_bounds", new_with_bounds(string, bounds))

WithBoundsCall ==
    \E self \in strings, range \in Ranges, build \in Builds :
        StringCall("with_bounds", with_bounds(self, range, build))

WithGraphemeIndicesCall ==
    \E self \in strings, start \in Usizes, end \in Ends, build \in Builds :
        StringCall("with_grapheme_indices",
                   with_grapheme_indices(self, start, end, build))

StringNext ==
    \/ NewCall
    \/ NewWithBoundsCall
    \/ WithBoundsCall
    \/ WithGraphemeIndicesCall

StringSpec == StringInit /\ [][StringNext]_vars

----------------------------------------------------------------------------

(* The browser entry point (examples/wasm/src/lib.rs): compile_and_run     *)
(* with one String that captures stdout and stderr.                        *)
(*                                                                         *)
(* A string is the sequence of its pieces; "0xFF" is a byte that is not    *)
(* UTF-8. The compiler and the runtime are not among the sources: a        *)
(* program is given by what they make of it, which is the error of its     *)
(* compilation if it has one, the calls of write and write_line that its   *)
(* run makes in order, and the error that ends its run if it has one.      *)

\* The most calls of write and write_line in the run of one program.
MaxWrites == 2

Files == {"stdout", "stderr"}

Texts == {<<"a">>, <<"b">>}

InvalidBytes == <<"0xFF">>

CompileMessages == {<<"E1">>}
RunMessages == {<<"E2">>}

WriteEvent(file, fn, bytes) == [file |-> file, fn |-> fn, bytes |-> bytes]

WriteEvents ==
    {WriteEvent(file, "write", bytes) :
        file \in Files, bytes \in Texts \cup {InvalidBytes}}
    \cup {WriteEvent(file, "write_line", text) : file \in Files, text \in Texts}

EventSeqs == UNION {[1..n -> WriteEvents] : n \in 0..MaxWrites}

Program(compile_error, events, run_error) ==
    [compile_error |-> compile_error, events |-> events, run_error |-> run_error]

Programs ==
    {Program(Some(e), <<>>, None) : e \in CompileMessages}
    \cup {Program(None, events, run_error) :
             events \in EventSeqs,
             run_error \in {None} \cup {Some(e) : e \in RunMessages}}

\* std::str::from_utf8
from_utf8(bytes) ==
    IF \E i \in 1..Len(bytes) : bytes[i] = "0xFF"
    THEN Err(Error("utf8", "invalid utf-8 sequence"))
    ELSE Ok(bytes)

\* What a function of OutputCapture leaves in the String and returns.
Wrote(string, r) == [string |-> string, r |-> r]

\* OutputCapture::write on the String `string`
write(string, bytes) ==
    LET bytes_str == from_utf8(bytes)
    IN IF ~IsOk(bytes_str) THEN Wrote(string, bytes_str)
       ELSE Wrote(string \o bytes_str.v, Ok(Null))

\* write_line as it would be without the push of '\n'.
write_line_without_the_newline(string, text) ==
    Wrote(string \o text, Ok(Null))

\* OutputCapture::write_line on the String `string`
write_line(string, text) ==
    Wrote((string \o text) \o <<"\n">>, Ok(Null))

\* The String that compile_and_run returns.
StringResult(string) == [r |-> "String", v |-> string]

\* format!("{prefix}{error}")
format(prefix, error) == <<prefix>> \o error

WasmInit ==
    /\ pc = "idle"
    /\ op = "none"
    /\ initial_value = Null
    /\ src = <<>>
    /\ pos = 0
    /\ acc = Null
    /\ calls = <<>>
    /\ result = NoResult
    /\ borrowed = FALSE
    /\ call_args = <<>>
    /\ iterators = <<>>
    /\ copies = {}
    /\ ReplNew /\ NoStrings /\ NoOutput

WasmUnchanged ==
    /\ UNCHANGED <<initial_value, src, acc, calls, borrowed, iterators, copies>>
    /\ UNCHANGED <<repl_vars, string_vars>>

\* compile_and_run up to the start of the run: a new String for both
\* files, and the compilation, whose error is returned with its prefix.
CompileAndRunCall ==
    /\ pc = "idle"
    /\ \E program \in Programs :
          /\ op' = "compile_and_run"
          /\ call_args' = <<program>>
          /\ capture' = <<>>
          /\ writes' = <<>>
          /\ pos' = 0
          /\ IF program.compile_error # None
             THEN /\ result' = StringResult(format("Compilation error: ",
                                                   program.compile_error[1]))
                  /\ pc' = "idle"
             ELSE /\ result' = NoResult
                  /\ pc' = "running"
    /\ WasmUnchanged

\* The next call that the run makes on stdout or stderr.
WriteStep ==
    /\ pc = "running" /\ op = "compile_and_run"
    /\ pos < Len(call_args[1].events)
    /\ LET event == call_args[1].events[pos + 1]
           wrote == IF event.fn = "write" THEN write(capture, event.bytes)
                    ELSE write_line(capture, event.bytes)
       IN /\ capture' = wrote.string
          /\ writes' = Append(writes, event)
    /\ pos' = pos + 1
    /\ UNCHANGED <<pc, op, call_args, result>>
    /\ WasmUnchanged

\* The end of the run: std::mem::take of the String, or the error of the
\* run with its prefix.
RunReturns ==
    /\ pc = "running" /\ op = "compile_and_run"
    /\ pos = Len(call_args[1].events)
    /\ IF call_args[1].run_error = None
       THEN /\ result' = StringResult(capture)
            /\ capture' = <<>>
       ELSE /\ result' = StringResult(format("Runtime error: ",
                                             call_args[1].run_error[1]))
            /\ UNCHANGED capture
    /\ pc' = "idle"
    /\ UNCHANGED <<op, call_args, pos, writes>>
    /\ WasmUnchanged

WasmNext ==
    \/ CompileAndRunCall
    \/ WriteStep
    \/ RunReturns

WasmSpec == WasmInit /\ [][WasmNext]_vars

----------------------------------------------------------------------------

(* Properties.                                                             *)

Done == pc = "done"

\* The eager consumers.
EagerOps ==
    {"count", "consume", "consume_fn", "to_list", "to_tuple", "fold", "sum",
     "product", "last", "max", "max_key", "min", "min_key", "min_max",
     "min_max_key"}

\* The functions driven by a predicate.
PredicateOps == {"all", "any", "find", "position"}

IsErrorOutput(output) == output.o = "Error"

\* The value the i-th output of the source is handed on as (a pair as a
\* 2-tuple).
Item(i) ==
    IF src[i].o = "ValuePair" THEN Tuple(<<src[i].a, src[i].b>>) ELSE src[i].v

\* C1: an eager consumer that is handed an error by its source returns that
\* error: whenever an output pulled from the source is an error, the call has
\* returned, and its result is that error (no number from count, no null
\* from consume).
C1_EagerConsumersReturnTheError ==
    op \in EagerOps =>
        \A k \in 1..pos :
            IsErrorOutput(src[k]) => Done /\ result = Err(src[k].e)

\* count has returned the error its source yielded at step 2 of 3.
C1_Witness ==
    /\ Done /\ op = "count" /\ Len(src) = 3 /\ pos = 2
    /\ IsErrorOutput(src[2]) /\ result = Err(src[2].e)
    /\ ~IsErrorOutput(src[3])

\* C2: when the source of an eager consumer yields an error at step k, step
\* k is the last pull (pos stays k) and every call of a user function or a
\* binary operator was made by a step before k.
C2_NothingAfterTheError ==
    op \in EagerOps =>
        \A k \in 1..pos :
            IsErrorOutput(src[k]) =>
                /\ pos = k
                /\ Done
                /\ \A i \in 1..Len(calls) : calls[i].at < k

\* consume with a function stopped at the error of step 2, having called f
\* once, and left the third output in the source.
C2_Witness ==
    /\ Done /\ op = "consume_fn" /\ Len(src) = 3 /\ pos = 2
    /\ IsErrorOutput(src[2]) /\ ~IsErrorOutput(src[3])
    /\ Len(calls) = 1 /\ calls[1].at = 1

\* C3: no iterator function calls user code while the iterator's internals
\* are borrowed, so that a folding function that advances the iterator being
\* folded never finds them borrowed.
C3_NoBorrowAcrossUserCode ==
    /\ \A i \in 1..Len(calls) : ~calls[i].held
    /\ result.r # "Panic"

\* The predicate calls of all, any, find and position: one per step, in
\* order.
CallsAreOnePerStep ==
    \A i \in 1..Len(calls) : calls[i].fn = "predicate" /\ calls[i].at = i

AllCallsReturned(n, b) ==
    \A i \in 1..n : calls[i].ret = Ok(Bool(b))

\* C4: all returns true exactly when the source is exhausted and the
\* predicate returned true on every output (so true for an empty source); a
\* false is the last call and the last pull, and all then returns false. any
\* is the dual.
C4_AllAnyShortCircuit ==
    /\ op = "all" =>
        /\ CallsAreOnePerStep
        /\ AllCallsReturned(Len(calls) - 1, TRUE)
        /\ Done =>
            /\ result = Ok(Bool(TRUE)) <=>
                    (Len(calls) = Len(src) /\ AllCallsReturned(Len(src), TRUE))
            /\ result = Ok(Bool(FALSE)) <=>
                    (Len(calls) > 0 /\ calls[Len(calls)].ret = Ok(Bool(FALSE)))
        /\ (Len(calls) > 0 /\ calls[Len(calls)].ret = Ok(Bool(FALSE))) =>
                Done /\ pos = Len(calls)
    /\ op = "any" =>
        /\ CallsAreOnePerStep
        /\ AllCallsReturned(Len(calls) - 1, FALSE)
        /\ Done =>
            /\ result = Ok(Bool(FALSE)) <=>
                    (Len(calls) = Len(src) /\ AllCallsReturned(Len(src), FALSE))
            /\ result = Ok(Bool(TRUE)) <=>
                    (Len(calls) > 0 /\ calls[Len(calls)].ret = Ok(Bool(TRUE)))
        /\ (Len(calls) > 0 /\ calls[Len(calls)].ret = Ok(Bool(TRUE))) =>
                Done /\ pos = Len(calls)

\* all has returned false at the second of three outputs.
C4_Witness ==
    /\ Done /\ op = "all" /\ Len(src) = 3 /\ pos = 2 /\ Len(calls) = 2
    /\ calls[1].ret = Ok(Bool(TRUE)) /\ calls[2].ret = Ok(Bool(FALSE))
    /\ result = Ok(Bool(FALSE))

NotABool(ret) == IsOk(ret) /\ ret.v.t # "Bool"

\* C5: in all, any, find and position a predicate result that is no Bool is
\* the last call and the last pull, and the function returns the type error
\* that says a Bool was expected from the predicate.
C5_NonBoolPredicateResult ==
    op \in PredicateOps =>
        \A i \in 1..Len(calls) :
            NotABool(calls[i].ret) =>
                /\ i = Len(calls)
                /\ pos = calls[i].at
                /\ Done
                /\ IsErr(result)
                /\ result.e.kind = "type_error"
                /\ result.e.msg = ExpectedBool

\* position has stopped at the second of three outputs, where the predicate
\* returned a number.
C5_Witness ==
    /\ Done /\ op = "position" /\ Len(src) = 3 /\ pos = 2 /\ Len(calls) = 2
    /\ calls[2].ret = Ok(Int1)
    /\ IsErr(result) /\ result.e.kind = "type_error" /\ result.e.msg = ExpectedBool

\* The calls of the key function, in the order they were made.
KeyCalls == SelectSeq(calls, LAMBDA c : c.fn = "key_fn")

\* What the key function returned at step i (NoResult if it was not called).
KeyRetAt(i) ==
    IF \E j \in 1..Len(calls) : calls[j].fn = "key_fn" /\ calls[j].at = i
    THEN (CHOOSE c \in {calls[j] : j \in 1..Len(calls)} :
              c.fn = "key_fn" /\ c.at = i).ret
    ELSE NoResult

KeyedOps == {"min_key", "max_key", "min_max_key"}

\* What the i-th item is compared by: its key, or itself without a key_fn.
CompareKey(i) == IF op \in KeyedOps THEN KeyRetAt(i).v ELSE Item(i)

\* a < b, where `<` is defined.
LessThan(a, b) == a.t = "Number" /\ b.t = "Number" /\ a.n < b.n

Minimal(j) == \A i \in 1..Len(src) : ~LessThan(CompareKey(i), CompareKey(j))
Maximal(j) == \A i \in 1..Len(src) : ~LessThan(CompareKey(j), CompareKey(i))

\* The earliest of the minimal, and of the maximal, items.
EarliestMinimal ==
    CHOOSE j \in 1..Len(src) : Minimal(j) /\ \A i \in 1..(j - 1) : ~Minimal(i)
EarliestMaximal ==
    CHOOSE j \in 1..Len(src) : Maximal(j) /\ \A i \in 1..(j - 1) : ~Maximal(i)

\* C6: min and max, with or without a key function, return the earliest of
\* the extremal items.
C6_TiesResolveToEarliest ==
    (Done /\ IsOk(result) /\ src # <<>>) =>
        /\ op \in {"min", "min_key"} => result.v = Item(EarliestMinimal)
        /\ op \in {"max", "max_key"} => result.v = Item(EarliestMaximal)

\* C7: with a key function, min, max and min_max call it once per item, in
\* the order of the source, on the item itself (a pair as one 2-tuple), and
\* return items of the source: one whose key is minimal, or maximal, or the
\* tuple of both.
C7_KeyOncePerItem ==
    op \in KeyedOps =>
        /\ \A i \in 1..Len(KeyCalls) :
              /\ KeyCalls[i].at = i
              /\ KeyCalls[i].mode = "Single"
              /\ KeyCalls[i].args = <<Item(i)>>
        /\ pc = "loop" => Len(KeyCalls) = pos
        /\ (Done /\ IsOk(result)) =>
              /\ Len(KeyCalls) = Len(src)
              /\ src = <<>> => result.v = Null
              /\ (src # <<>> /\ op = "min_key") =>
                    \E j \in 1..Len(src) : Minimal(j) /\ result.v = Item(j)
              /\ (src # <<>> /\ op = "max_key") =>
                    \E j \in 1..Len(src) : Maximal(j) /\ result.v = Item(j)
              /\ (src # <<>> /\ op = "min_max_key") =>
                    \E j, k \in 1..Len(src) :
                        /\ Minimal(j) /\ Maximal(k)
                        /\ result.v = Tuple(<<Item(j), Item(k)>>)

\* min_max with a key function has returned two different items of a source
\* of three, whose keys differ from the items.
C7_Witness ==
    /\ Done /\ op = "min_max_key" /\ Len(src) = 3 /\ IsOk(result)
    /\ Len(KeyCalls) = 3
    /\ src[1] = OValue(Float1) /\ KeyRetAt(1) = Ok(Int2)
    /\ src[3] = OValuePair(Int1, Int2) /\ KeyRetAt(3) = Ok(Int1)
    /\ result.v = Tuple(<<Tuple(<<Int1, Int2>>), Float1>>)

\* The example of the specification: [3, 1, 4, 1, 5, 9, 2, 6].
ExampleNumbers == <<3, 1, 4, 1, 5, 9, 2, 6>>
ExampleSource == [i \in 1..8 |-> OValue(Number(ExampleNumbers[i], FALSE))]
ExampleNoKeys == [i \in 1..8 |-> NoResult]
ExampleNegatedKeys == [i \in 1..8 |-> Ok(Number(0 - ExampleNumbers[i], FALSE))]
ExampleMinMax == RunLoop("min_max", None, ExampleSource, ExampleNoKeys, 1)
ExampleMinMaxByKey ==
    RunLoop("min_max_key", None, ExampleSource, ExampleNegatedKeys, 1)

\* C8: min_max returns null on an empty source and otherwise the tuple of
\* what min and what max return on the same source with the same keys; it
\* fails exactly when one of them does, with that error. On
\* [3, 1, 4, 1, 5, 9, 2, 6] it gives (1, 9), and (9, 1) with the key -n.
C8_MinMaxIsMinAndMax ==
    /\ pc = "idle" =>
          /\ ExampleMinMax = Ok(Tuple(<<Number(1, FALSE), Number(9, FALSE)>>))
          /\ ExampleMinMaxByKey =
                 Ok(Tuple(<<Number(9, FALSE), Number(1, FALSE)>>))
    /\ (Done /\ op \in {"min_max", "min_max_key"}) =>
          LET pulled == SubSeq(src, 1, pos)
              rets == [i \in 1..pos |-> KeyRetAt(i)]
              min == RunLoop(IF op = "min_max" THEN "min" ELSE "min_key",
                                   None, pulled, rets, 1)
              max == RunLoop(IF op = "min_max" THEN "max" ELSE "max_key",
                                   None, pulled, rets, 1)
          IN /\ IsOk(result) =>
                    /\ pos = Len(src)
                    /\ IsOk(min) /\ IsOk(max)
                    /\ result.v = IF src = <<>> THEN Null
                                  ELSE Tuple(<<min.v, max.v>>)
             /\ IsErr(result) => (result = min \/ result = max)
             /\ src = <<>> => result = Ok(Null)

\* min_max has returned (1, 2) on a source of three numbers in which the
\* minimum comes after the maximum.
C8_Witness ==
    /\ Done /\ op = "min_max" /\ Len(src) = 3
    /\ src[1] = OValue(Int2) /\ src[2] = OValue(Int1)
    /\ result = Ok(Tuple(<<Int1, Int2>>))

\* C9: fold calls f once per item, in order, with (accumulator, item), the
\* accumulator being the initial value at first and then what the last call
\* returned, a pair being one 2-tuple item; it returns the initial value if
\* the source is empty and else what the last call of f returned.
C9_FoldIsLeftFold ==
    op = "fold" =>
        /\ \A i \in 1..Len(calls) :
              /\ calls[i].fn = "f" /\ calls[i].at = i
              /\ calls[i].mode = "Separate"
              /\ calls[i].args =
                    <<IF i = 1 THEN initial_value ELSE calls[i - 1].ret.v, Item(i)>>
        /\ pc = "loop" => Len(calls) = pos
        /\ (Done /\ IsOk(result)) =>
              /\ Len(calls) = Len(src)
              /\ result.v = IF src = <<>> THEN initial_value
                            ELSE calls[Len(src)].ret.v

\* fold has returned 1 on a source of three items, a pair among them, from
\* the initial value 0, f having returned 2, 2 and 1.
C9_Witness ==
    /\ Done /\ op = "fold" /\ Len(src) = 3 /\ initial_value = Number(0, FALSE)
    /\ src[2] = OValuePair(Int1, Int2)
    /\ Len(calls) = 3 /\ calls[2].ret = Ok(Int2) /\ calls[3].ret = Ok(Int1)
    /\ result = Ok(Int1)

\* C10: find calls the predicate once per item, in order, on the item itself
\* (a pair as one 2-tuple); the first true is the last call and the last
\* pull, and find returns that item; it returns null when the source is
\* exhausted without a true.
C10_FindFirstMatch ==
    op = "find" =>
        /\ \A i \in 1..Len(calls) :
              /\ calls[i].fn = "predicate" /\ calls[i].at = i
              /\ calls[i].mode = "Single"
              /\ calls[i].args = <<Item(i)>>
        /\ AllCallsReturned(Len(calls) - 1, FALSE)
        /\ (Len(calls) > 0 /\ calls[Len(calls)].ret = Ok(Bool(TRUE))) =>
              /\ Done
              /\ pos = Len(calls)
              /\ result = Ok(Item(pos))
        /\ (Done /\ Len(calls) = Len(src) /\ AllCallsReturned(Len(src), FALSE)) =>
              result = Ok(Null)
        /\ (Done /\ IsOk(result)) =>
              \/ Len(calls) > 0 /\ calls[Len(calls)].ret = Ok(Bool(TRUE))
              \/ Len(calls) = Len(src) /\ AllCallsReturned(Len(src), FALSE)

\* find has returned the pair at the second of three outputs as a 2-tuple.
C10_Witness ==
    /\ Done /\ op = "find" /\ Len(src) = 3 /\ pos = 2
    /\ src[2] = OValuePair(Int1, Int2)
    /\ calls[2].args = <<Tuple(<<Int1, Int2>>)>>
    /\ result = Ok(Tuple(<<Int1, Int2>>))

\* C11: position calls the predicate once per output, in order; the first
\* true is the last call and the last pull, and position returns the number
\* of calls that returned false before it, which is the zero-based index of
\* that output; it returns null when the source is exhausted without a true.
C11_PositionIsFirstIndex ==
    op = "position" =>
        /\ CallsAreOnePerStep
        /\ AllCallsReturned(Len(calls) - 1, FALSE)
        /\ (Len(calls) > 0 /\ calls[Len(calls)].ret = Ok(Bool(TRUE))) =>
              /\ Done
              /\ pos = Len(calls)
              /\ result = Ok(Number(pos - 1, FALSE))
              /\ result.v.n = Cardinality({i \in 1..Len(calls) :
                                              calls[i].ret = Ok(Bool(FALSE))})
        /\ (Done /\ Len(calls) = Len(src) /\ AllCallsReturned(Len(src), FALSE)) =>
              result = Ok(Null)
        /\ (Done /\ IsOk(result)) =>
              \/ Len(calls) > 0 /\ calls[Len(calls)].ret = Ok(Bool(TRUE))
              \/ Len(calls) = Len(src) /\ AllCallsReturned(Len(src), FALSE)

\* position has returned 2 on a source of three outputs, the predicate
\* having rejected the first two.
C11_Witness ==
    /\ Done /\ op = "position" /\ Len(src) = 3 /\ pos = 3
    /\ calls[1].ret = Ok(Bool(FALSE)) /\ calls[2].ret = Ok(Bool(FALSE))
    /\ result = Ok(Int2)

\* What the iterator `id` yields from now on, up to its first None.
RECURSIVE Remaining(_, _)
Remaining(heap, id) ==
    LET pulled == iterator_next(heap, Handle(id)) IN
    IF pulled.out = None THEN <<>>
    ELSE <<pulled.out[1]>> \o Remaining(pulled.heap, id)

\* The result that hands on the output `output`.
ResultOf(output) ==
    CASE output.o = "Error" -> Err(output.e)
      [] output.o = "ValuePair" -> Ok(Tuple(<<output.a, output.b>>))
      [] output.o = "Value" -> Ok(output.v)

\* The arguments that are the handle of an iterator and a count that is not
\* negative.
IteratorAndCountArgs ==
    {a \in IterableAndCountArgs : a[1].t = "Iterator" /\ a[2].n >= 0}

\* C12: whatever iterators there are, a call of take or skip on one of them
\* with a negative count returns an error and leaves every iterator as it
\* was: none is made, none is advanced.
C12_NegativeCountIsAnError ==
    \A a \in IterableAndCountArgs :
        a[2].n < 0 =>
            /\ IsErr(take(iterators, a).result)
            /\ take(iterators, a).heap = iterators
            /\ IsErr(skip(iterators, a).result)
            /\ skip(iterators, a).heap = iterators

\* take has returned an error on an iterator and the count -1, the iterator
\* still being where it was, one output into its source.
C12_Witness ==
    /\ op = "take" /\ call_args = <<Iterator(1), Number(-1, FALSE)>>
    /\ IsErr(result)
    /\ iterators = <<Cursor(1)>> /\ Len(src) = 2

\* C13: skip(it, n) with n >= 0 returns the first error among the first n
\* outputs that `it` has left, if there is one; otherwise it returns an
\* iterator that yields what `it` had left from index n on, in order, which
\* is nothing if `it` had n outputs or fewer.
C13_SkipDropsTheFirstN ==
    \A a \in IteratorAndCountArgs :
        LET n == a[2].n
            left == Remaining(iterators, a[1].id)
            errors == {k \in 1..Len(left) : k <= n /\ left[k].o = "Error"}
            returned == skip(iterators, a)
        IN IF errors # {}
           THEN returned.result =
                    Err(left[CHOOSE k \in errors : \A j \in errors : k <= j].e)
           ELSE /\ IsOk(returned.result)
                /\ returned.result.v.t = "Iterator"
                /\ Remaining(returned.heap, returned.result.v.id) =
                       SubSeq(left, n + 1, Len(left))

\* skip has returned an iterator that yields the second of two outputs.
C13_Witness ==
    /\ op = "skip" /\ call_args = <<Iterator(1), Number(1, FALSE)>>
    /\ Len(src) = 2 /\ src[1] = OValue(Int1)
    /\ result = Ok(Iterator(1))
    /\ Remaining(iterators, 1) = <<src[2]>>

\* C14: a call of next on an iterator that has an output left returns that
\* output (a pair as a 2-tuple, an error as the error of the call) and
\* leaves the iterator behind that handle with the rest; on an iterator
\* that has nothing left it returns null and changes what no iterator
\* yields. It makes no iterator.
C14_NextAdvancesByOne ==
    \A id \in DOMAIN iterators :
        LET left == Remaining(iterators, id)
            returned == next(iterators, <<Iterator(id)>>)
        IN /\ DOMAIN returned.heap = DOMAIN iterators
           /\ IF left = <<>>
              THEN /\ returned.result = Ok(Null)
                   /\ \A j \in DOMAIN iterators :
                         Remaining(returned.heap, j) = Remaining(iterators, j)
              ELSE /\ returned.result = ResultOf(left[1])
                   /\ Remaining(returned.heap, id) = Tail(left)

\* next has returned the pair that is the second of two outputs as a
\* 2-tuple, the iterator being exhausted after it.
C14_Witness ==
    /\ op = "next" /\ call_args = <<Iterator(1)>>
    /\ Len(src) = 2 /\ src[2] = OValuePair(Int1, Int2)
    /\ result = Ok(Tuple(<<Int1, Int2>>))
    /\ iterators[1] = Cursor(2)

\* The iterators as a call that advances the iterator `id` can leave them:
\* a next, or a skip with one of the counts.
Advanced(id) ==
    {next(iterators, <<Iterator(id)>>).heap}
        \cup {skip(iterators, <<Iterator(id), n>>).heap : n \in Counts}

DerivedKey(i) ==
    IF src[i].o = "ValuePair" THEN src[i].a
    ELSE IF src[i].v.t = "Tuple" /\ Len(src[i].v.data) = 2 THEN src[i].v.data[1]
    ELSE src[i].v

DerivedValue(i) ==
    IF src[i].o = "ValuePair" THEN src[i].b
    ELSE IF src[i].v.t = "Tuple" /\ Len(src[i].v.data) = 2 THEN src[i].v.data[2]
    ELSE Null

\* The kinds of value that are immutable.
ImmutableKinds == {"Null", "Bool", "Number", "Num2", "Num4", "Range", "Str"}

\* The source yields no error and no key that is not immutable.
AllAreEntries ==
    \A i \in 1..Len(src) :
        ~IsErrorOutput(src[i]) /\ DerivedKey(i).t \in ImmutableKinds

\* The source is the iterator of a map: pairs whose keys are immutable and
\* differ from one another.
IsMapIterator ==
    /\ \A i \in 1..Len(src) :
          src[i].o = "ValuePair" /\ src[i].a.t \in ImmutableKinds
    /\ \A i, j \in 1..Len(src) : src[i].a = src[j].a => i = j

\* C16: on a source that yields only entries, to_map returns a map whose
\* keys are the keys of the outputs (a pair's first, the first element of a
\* tuple of two, any other value itself), each once, with the value of the
\* last output that has that key (a pair's second, the tuple's second
\* element, null); so on the iterator of a map it returns the entries of
\* that map.
C16_ToMapEntries ==
    (op = "to_map" /\ Done /\ AllAreEntries) =>
        /\ IsOk(result)
        /\ result.v.t = "Map"
        /\ LET entries == result.v.data IN
           /\ \A i, j \in 1..Len(entries) : entries[i][1] = entries[j][1] => i = j
           /\ {entries[i][1] : i \in 1..Len(entries)} =
                  {DerivedKey(i) : i \in 1..Len(src)}
           /\ \A i \in 1..Len(entries) :
                 \E j \in 1..Len(src) :
                    /\ DerivedKey(j) = entries[i][1]
                    /\ DerivedValue(j) = entries[i][2]
                    /\ \A k \in (j + 1)..Len(src) : DerivedKey(k) # entries[i][1]
           /\ IsMapIterator =>
                 {entries[i] : i \in 1..Len(entries)} =
                     {<<src[i].a, src[i].b>> : i \in 1..Len(src)}

\* to_map has returned 1 -> 2, 2 -> 2 and null -> null on a pair, a tuple of
\* two and a null.
C16_Witness ==
    /\ Done /\ op = "to_map"
    /\ src = <<OValuePair(Int1, Int2), OValue(Tuple(<<Int2, Int2>>)), OValue(Null)>>
    /\ result = Ok(Map(<<<<Int1, Int2>>, <<Int2, Int2>>, <<Null, Null>>>>))

\* C17: when an output pulled by to_map has a key that is not of an
\* immutable kind, that pull is the last, and to_map has returned the
\* runtime error that names the kind of that key; a map that to_map returns
\* has keys of the immutable kinds only.
C17_OnlyImmutableKeys ==
    op = "to_map" =>
        /\ \A k \in 1..pos :
              (~IsErrorOutput(src[k]) /\ DerivedKey(k).t \notin ImmutableKinds) =>
                  /\ Done
                  /\ pos = k
                  /\ IsErr(result)
                  /\ result.e.kind = "runtime"
                  /\ result.e.msg = OnlyImmutableKeys
                  /\ result.e.found = DerivedKey(k).t
        /\ (Done /\ IsOk(result)) =>
              \A i \in 1..Len(result.v.data) :
                  result.v.data[i][1].t \in ImmutableKinds

\* to_map has failed at the second of three outputs, a tuple whose first
\* element is a list, with the error that names List.
C17_Witness ==
    /\ Done /\ op = "to_map" /\ Len(src) = 3 /\ pos = 2
    /\ src[1] = OValue(Int1)
    /\ src[2] = OValue(Tuple(<<List(<<>>), Int1>>))
    /\ IsErr(result) /\ result.e.found = "List"

\* The i-th output of the source is a number.
IsNumberOutput(i) == src[i].o = "Value" /\ src[i].v.t = "Number"

\* C18: num4_from_iterator pulls at most four outputs. An error among them
\* is returned, an output among them that is no number is a type error, and
\* both end the pulls. If it returns a Num4, the outputs it pulled are
\* numbers, they are the first four of the source or all of it, component i
\* is the i-th of them as a 32-bit float, and the components beyond them
\* are 0.
C18_Num4FromIterator ==
    op = "to_num4" =>
        /\ pos <= 4
        /\ \A k \in 1..pos :
              /\ IsErrorOutput(src[k]) =>
                    Done /\ pos = k /\ result = Err(src[k].e)
              /\ (~IsErrorOutput(src[k]) /\ ~IsNumberOutput(k)) =>
                    /\ Done /\ pos = k
                    /\ IsErr(result) /\ result.e.kind = "type_error"
                    /\ result.e.msg = ExpectedNumber
        /\ (Done /\ \A k \in 1..pos : IsNumberOutput(k)) =>
              /\ (pos = 4 \/ pos = Len(src))
              /\ result = Ok(Num4([i \in 1..4 |->
                                      IF i <= pos THEN as_f32(src[i].v.n) ELSE 0]))
        /\ (Done /\ IsOk(result)) => \A k \in 1..pos : IsNumberOutput(k)

\* A Num4 has been returned on a source of five outputs, of which the first
\* four, all numbers, were pulled and the fifth, which is no number, was
\* not.
C18_Witness ==
    /\ Done /\ op = "to_num4" /\ Len(src) = 5 /\ pos = 4
    /\ src[5] = OValue(Null)
    /\ src[2] = OValue(BigInt)
    /\ IsOk(result) /\ result.v.n[1] = 1 /\ result.v.n[2] = F32Exact

\* C20: when an output pulled by from_bytes is an error, no number, or a
\* number below 0 or above 255, that pull is the last and from_bytes has
\* returned the error of the source, a type error or the byte-range error
\* that names the number; a string that from_bytes returns is made of all
\* the outputs of the source, each a number from 0 to 255.
C20_FromBytesRange ==
    op = "from_bytes" =>
        /\ \A k \in 1..pos :
              /\ IsErrorOutput(src[k]) =>
                    Done /\ pos = k /\ result = Err(src[k].e)
              /\ (~IsErrorOutput(src[k]) /\ ~IsNumberOutput(k)) =>
                    /\ Done /\ pos = k
                    /\ IsErr(result) /\ result.e.kind = "type_error"
              /\ (IsNumberOutput(k) /\ (src[k].v.n < 0 \/ src[k].v.n > 255)) =>
                    /\ Done /\ pos = k
                    /\ IsErr(result) /\ result.e.kind = "runtime"
                    /\ result.e.msg = OutOfByteRange
                    /\ result.e.found = src[k].v.n
        /\ (Done /\ IsOk(result)) =>
              /\ pos = Len(src)
              /\ \A k \in 1..Len(src) :
                    IsNumberOutput(k) /\ src[k].v.n \in 0..255
              /\ result.v = Str([k \in 1..Len(src) |-> src[k].v.n])

\* from_bytes has failed at the 300 that is the second of three outputs,
\* with the byte-range error.
C20_Witness ==
    /\ Done /\ op = "from_bytes" /\ Len(src) = 3 /\ pos = 2
    /\ src[1] = OValue(Number(65, FALSE))
    /\ src[2] = OValue(Number(300, FALSE))
    /\ IsErr(result) /\ result.e.msg = OutOfByteRange /\ result.e.found = 300

\* The arguments of the call are a Num4 and two numbers.
IsWithCall ==
    /\ op = "with" /\ Len(call_args) = 3
    /\ call_args[1].t = "Num4"
    /\ call_args[2].t = "Number"
    /\ call_args[3].t = "Number"

\* C19: with(n, i, v) leaves n as the caller holds it. For i from 0 to 3 it
\* returns a Num4 whose component i is v as a 32-bit float and whose other
\* components are those of n; for any other i it returns the invalid-index
\* error.
C19_WithSetsOneComponent ==
    (Done /\ IsWithCall) =>
        LET n == call_args[1]
            i == call_args[2].n
            v == call_args[3].n
        IN /\ n = initial_value
           /\ i \in 0..3 =>
                 /\ IsOk(result)
                 /\ result.v.t = "Num4"
                 /\ result.v.n[i + 1] = as_f32(v)
                 /\ \A j \in 0..3 : j # i => result.v.n[j + 1] = n.n[j + 1]
           /\ i \notin 0..3 =>
                 /\ IsErr(result)
                 /\ result.e.kind = "runtime"
                 /\ result.e.msg = InvalidIndex

\* with has returned the invalid-index error on index 4.
C19_Witness ==
    /\ Done /\ IsWithCall
    /\ call_args = <<Num4(<<0, 0, 0, 0>>), Number(4, FALSE), Int2>>
    /\ IsErr(result) /\ result.e.msg = InvalidIndex

\* The iterators as they are once the iterator `id` has been pulled until it
\* returned None.
RECURSIVE Drained(_, _)
Drained(heap, id) ==
    LET pulled == iterator_next(heap, Handle(id)) IN
    IF pulled.out = None THEN pulled.heap ELSE Drained(pulled.heap, id)

\* The handles a call of zip is given: those of the iterators that are
\* cursors on items of their own, while the program has made no zip.
ItemsHandles ==
    IF \E id \in DOMAIN iterators : iterators[id].k = "Zip" THEN {}
    ELSE {id \in DOMAIN iterators : iterators[id].k = "Items"}

NoErrors(outputs) == \A k \in 1..Len(outputs) : outputs[k].o # "Error"

\* The value that an output is as one half of a pair.
AsValue(output) == collect_pair(output).v

Smaller(m, n) == IF m <= n THEN m ELSE n

\* What holds of zip on the handles a and b, whichever adaptor it makes.
ZipsInStep(a, b, pulls_both) ==
    LET left == Remaining(iterators, a)
        right == Remaining(iterators, b)
        returned == zip(iterators, <<Iterator(a), Iterator(b)>>, pulls_both)
        id == returned.result.v.id
        pairs == Remaining(returned.heap, id)
        after == Drained(returned.heap, id)
        n == Smaller(Len(left), Len(right))
    IN /\ IsOk(returned.result)
       /\ returned.result.v.t = "Iterator"
       /\ id \notin DOMAIN iterators
       /\ Remaining(returned.heap, a) = left
       /\ Remaining(returned.heap, b) = right
       /\ (NoErrors(left) /\ NoErrors(right)) =>
             /\ Len(pairs) = n
             /\ \A i \in 1..n :
                   pairs[i] = OValuePair(AsValue(left[i]), AsValue(right[i]))
             /\ Remaining(after, a) =
                    SubSeq(left, Smaller(n + 1, Len(left)) + 1, Len(left))
             /\ \E pulls \in {n, n + 1} :
                   Remaining(after, b) =
                       SubSeq(right, Smaller(pulls, Len(right)) + 1, Len(right))

C22_CtrlCClearsCtrlDExitsOnEmpty ==
    [][/\ last_key' = "CtrlC" => (input' = <<>> /\ process' = process)
       /\ (last_key' = "CtrlD" /\ input = <<>>) => process' = "exited"
       /\ (last_key' = "CtrlD" /\ input # <<>>) =>
             /\ process' = process
             /\ UNCHANGED <<input, input_history, history_position>>
       /\ process' = "exited" => (last_key' = "CtrlD" /\ input = <<>>)
      ]_vars

\* A Ctrl-D has been read on a line that is not empty, with an entry of the
\* history selected, and the REPL runs on.
C22_Witness ==
    /\ last_key = "CtrlD" /\ process = "running"
    /\ input = <<"a">> /\ history_position = Some(0)
    /\ input_history = <<<<"a">>>>

\* C23: with a history that is not empty, an Up from no selection selects
\* the newest entry, an Up from entry p > 0 selects entry p - 1, and an Up
\* from entry 0 selects entry 0. A Down from entry p selects entry p + 1 if
\* there is one, and otherwise deselects and empties the input line. After
\* an Up or a Down that leaves entry p selected, the input line is entry p.
C23_ArrowsWalkTheHistory ==
    [][/\ (last_key' = "Up" /\ input_history # <<>>) =>
             /\ history_position = None =>
                   history_position' = Some(Len(input_history) - 1)
             /\ (history_position # None /\ history_position[1] > 0) =>
                   history_position' = Some(history_position[1] - 1)
             /\ (history_position # None /\ history_position[1] = 0) =>
                   history_position' = Some(0)
       /\ (last_key' = "Down" /\ history_position # None) =>
             IF history_position[1] + 1 < Len(input_history)
             THEN history_position' = Some(history_position[1] + 1)
             ELSE history_position' = None /\ input' = <<>>
       /\ (last_key' \in {"Up", "Down"} /\ history_position' # None) =>
             /\ history_position'[1] < Len(input_history')
             /\ input' = input_history'[history_position'[1] + 1]
      ]_vars

\* A second Up has selected the older of two entries that differ.
C23_Witness ==
    /\ last_key = "Up" /\ history_position = Some(0)
    /\ input_history = <<<<"a">>, <<"b">>>>
    /\ input = <<"a">>

\* C24: history_position is None or Some(p) with p below the length of the
\* history, and no key makes the REPL panic.
C24_HistoryPositionInBounds ==
    /\ history_position # None => history_position[1] < Len(input_history)
    /\ history_position # None => history_position[1] >= 0
    /\ process # "panicked"

\* A Down has selected the newest of two entries.
C24_Witness ==
    /\ last_key = "Down" /\ history_position = Some(1)
    /\ Len(input_history) = 2

\* C25: the cursor is None in every state; a Backspace removes the last
\* character of the input line, if it has one; a character that is typed
\* becomes the last of the input line; and no key makes the REPL panic.
C25_CursorIsAlwaysNone ==
    /\ [](cursor = None /\ process # "panicked")
    /\ [][/\ last_key' = "Backspace" =>
                IF input = <<>> THEN input' = <<>>
                ELSE input' = SubSeq(input, 1, Len(input) - 1)
          /\ last_key' = "Char" =>
                \E c \in Chars : input' = input \o <<c>>
         ]_vars

\* A `b` has been typed behind an `a`.
C25_Witness ==
    /\ last_key = "Char" /\ input = <<"a", "b">> /\ cursor = None

\* C26: an Enter puts the input line at the end of the history, deselects
\* and empties the input line, whatever the line is and whatever it
\* printed; no other key changes the history; the history has as many
\* entries as there were Enters.
C26_EnterRecordsEveryLine ==
    /\ [](Len(input_history) = enters)
    /\ [][/\ last_key' = "Enter" =>
                /\ input_history' = Append(input_history, input)
                /\ history_position' = None
                /\ input' = <<>>
                /\ enters' = enters + 1
          /\ last_key' # "Enter" =>
                UNCHANGED <<input_history, enters>>
         ]_vars

\* A second Enter, on an empty line, has printed an error; both lines are
\* in the history.
C26_Witness ==
    /\ last_key = "Enter" /\ printed = "error" /\ enters = 2
    /\ input_history = <<<<"a">>, <<>>>>
    /\ input = <<>> /\ history_position = None


\* C27: on every string made, with_grapheme_indices(n, Some(n)) returns the
\* empty string when n is at most the number of graphemes of the string,
\* n = 0 on a string that is not empty included, and None when n is
\* greater; in either build.
C27_EqualIndicesGiveTheEmptyString ==
    \A self \in strings, build \in Builds, n \in 0..3 :
        with_grapheme_indices(self, n, Some(n), build)
            = IF n <= grapheme_count(self) THEN Some(empty) ELSE None

\* The same from n = 1 on, where `end_unwrapped - 1` does not go below 0.
C27_FromOneOn ==
    \A self \in strings, build \in Builds, n \in 1..3 :
        with_grapheme_indices(self, n, Some(n), build)
            = IF n <= grapheme_count(self) THEN Some(empty) ELSE None


\* C28: every string made has bounds with start <= end <= the length of
\* its buffer; a slice that with_bounds(r) returns on a string with the
\* bounds [s, e) has the buffer of that string and the bounds
\* [s + r.start, s + r.end), which lie inside [s, e); and with_bounds
\* returns no string when r reaches past e - s.
C28_SlicesStayInsideTheirParent ==
    /\ \A made \in strings :
           /\ 0 <= made.bounds.start
           /\ made.bounds.start <= made.bounds.end
           /\ made.bounds.end <= Len(made.string)
    /\ \A self \in strings, r \in Ranges, build \in Builds :
           LET slice == with_bounds(self, r, build)
               s == self.bounds.start
               e == self.bounds.end
               is_string == slice # None /\ slice # Panicked
           IN /\ is_string =>
                     /\ slice[1].string = self.string
                     /\ slice[1].bounds = Range(s + r.start, s + r.end)
                     /\ ule(r.start, r.end) /\ ule(r.end, e - s)
                     /\ s <= slice[1].bounds.start
                     /\ slice[1].bounds.end <= e
              /\ ~ule(r.end, e - s) => ~is_string

\* The same of the build that checks for overflow, where with_bounds
\* panics instead.
C28_InADebugBuild ==
    /\ \A made \in strings :
           /\ 0 <= made.bounds.start
           /\ made.bounds.start <= made.bounds.end
           /\ made.bounds.end <= Len(made.string)
    /\ \A self \in strings, r \in Ranges :
           LET slice == with_bounds(self, r, "debug")
               s == self.bounds.start
               e == self.bounds.end
               is_string == slice # None /\ slice # Panicked
           IN /\ is_string =>
                     /\ slice[1].string = self.string
                     /\ slice[1].bounds = Range(s + r.start, s + r.end)
                     /\ ule(r.start, r.end) /\ ule(r.end, e - s)
                     /\ s <= slice[1].bounds.start
                     /\ slice[1].bounds.end <= e
              /\ ~ule(r.end, e - s) => ~is_string


\* The last output of the source that has the key of the i-th.
LastWithKeyOf(i) ==
    CHOOSE j \in 1..Len(src) :
        /\ DerivedKey(j) = DerivedKey(i)
        /\ \A k \in (j + 1)..Len(src) : DerivedKey(k) # DerivedKey(i)

\* C29: a map that to_map returns has as many entries as the source has
\* yielded distinct keys, and for every key, one that the source has
\* yielded more than once included, exactly one entry, which holds the
\* value of the last output with that key.
C29_RepeatedKeyKeepsTheLastValue ==
    (op = "to_map" /\ Done /\ IsOk(result)) =>
        LET entries == result.v.data IN
        /\ Len(entries) = Cardinality({DerivedKey(i) : i \in 1..Len(src)})
        /\ \A i \in 1..Len(src) :
              /\ Cardinality({k \in 1..Len(entries) :
                                 entries[k][1] = DerivedKey(i)}) = 1
              /\ \A k \in 1..Len(entries) :
                    entries[k][1] = DerivedKey(i) =>
                        entries[k][2] = DerivedValue(LastWithKeyOf(i))

\* to_map has returned the one entry 1 -> null on the pair (1, 2) followed
\* by the value 1.
C29_Witness ==
    /\ Done /\ op = "to_map"
    /\ src = <<OValuePair(Int1, Int2), OValue(Int1)>>
    /\ result = Ok(Map(<<<<Int1, Null>>>>))


\* What the calls of a log of write and write_line put out, in the order of
\* the log: the bytes of a write that are UTF-8, the text of a write_line
\* and one newline after it.
RECURSIVE Written(_)
Written(log) ==
    IF log = <<>> THEN <<>>
    ELSE LET event == log[Len(log)]
             before == Written(SubSeq(log, 1, Len(log) - 1))
         IN IF event.fn = "write_line" THEN (before \o event.bytes) \o <<"\n">>
            ELSE IF event.bytes = InvalidBytes THEN before
            ELSE before \o event.bytes

\* C30: a call of compile_and_run starts its run with an empty String; what
\* it returns for a program that compiles and runs without error is what
\* the writes of that run on stdout and stderr put out, in the order they
\* happened; for a program that does not compile it is 'Compilation error: '
\* and the error, for a run that fails 'Runtime error: ' and the error.
C30_ResultIsTheOutputOfThisRun ==
    op = "compile_and_run" =>
        LET program == call_args[1] IN
        /\ (pc = "running" /\ pos = 0) => capture = <<>>
        /\ pc = "running" => capture = Written(writes)
        /\ pc = "idle" =>
              /\ writes = program.events
              /\ result.r = "String"
              /\ result.v =
                     IF program.compile_error # None
                     THEN <<"Compilation error: ">> \o program.compile_error[1]
                     ELSE IF program.run_error # None
                     THEN <<"Runtime error: ">> \o program.run_error[1]
                     ELSE Written(writes)

\* compile_and_run has returned "a\nb" for a program that writes the line
\* "a" on stderr and then "b" on stdout.
C30_Witness ==
    /\ op = "compile_and_run" /\ pc = "idle"
    /\ writes = <<WriteEvent("stderr", "write_line", <<"a">>),
                  WriteEvent("stdout", "write", <<"b">>)>>
    /\ call_args[1].run_error = None
    /\ result = StringResult(<<"a", "\n", "b">>)

====
